---- MODULE Spec2Model ----
(***************************************************************************)
(* Kernel::Process of the guest-kernel emulation layer: the process status *)
(* machine and its signal (Process is a WaitObject), the termination       *)
(* sweep, and the TLS slot allocator.                                      *)
(*                                                                         *)
(* The specifications share the variables:                                 *)
(*   Spec      the Process handlers, each run as one step (a handler runs  *)
(*             with the kernel-global lock held), with the threads that    *)
(*             wait on the process;                                        *)
(*   SpecWait  the waiter path and ChangeStatus cut into their statements, *)
(*             one host thread per core, under the kernel-global lock;     *)
(*   SpecTLS   MarkNextAvailableTLSSlotAsUsed / FreeTLSSlot;               *)
(*   SpecRun   the loader thread: LoadFromMetadata, LoadModule, and Run    *)
(*             statement by statement;                                     *)
(*   SpecSweep PrepareForTermination statement by statement;               *)
(*   SpecSys   System::Load and Shutdown around Process::Create;           *)
(*   SpecBroker the four storage channels of an AppletDataBroker;          *)
(*   SpecApplets the applet frontends across sessions.                     *)
(***************************************************************************)
EXTENDS Integers, Sequences, FiniteSets, TLC

(***************************************************************************)
(* Bounds of the model.                                                    *)
(***************************************************************************)
\* threads in the global scheduler's thread list
MaxThreads == 3
\* effective status changes recorded in status_log after Create
MaxStatusChanges == 5
\* emulated cores, one host thread each (SpecWait)
NumCores == 2
\* TLS pages a process may allocate (SpecTLS)
MaxPages == 2
\* FreeTLSSlot calls in one run (SpecTLS)
MaxFrees == 2
\* processes created in one session (SpecSys)
MaxProcesses == 2
\* storages pushed into the channels of one broker (SpecBroker)
MaxStorages == 3
\* bits of the model's unsigned integers, standing for the 64 of u64
WordBits == 20

(***************************************************************************)
(* Program constants.                                                      *)
(***************************************************************************)
\* Memory::PAGE_SIZE (1 << 12)
PAGE_SIZE == 4096
\* Memory::TLS_ENTRY_SIZE
TLS_ENTRY_SIZE == 512
\* std::bitset<8>: slots of one TLS page
SlotsPerPage == 8

\* the address space's thread-local/IO region, [base, end)
TLSIORegionBaseAddress == 65536
TLSIORegionEndAddress == 131072

\* the address space's code region starts here
CodeRegionBaseAddress == 16384

ProcessStatus == <<"Created", "Running", "Exiting", "Exited">>
StatusSet == {ProcessStatus[i] : i \in 1..Len(ProcessStatus)}

RESULT_SUCCESS == "RESULT_SUCCESS"
ERR_INVALID_STATE == "ERR_INVALID_STATE"

\* stack sizes the loader asks Run for
StackSizes == {1, PAGE_SIZE, PAGE_SIZE + 1}

\* unsigned arithmetic wraps at this value
WordModulus == 2 ^ WordBits

\* the priority of a thread that is given none, and the ideal core and the
\* address-space type of a process no metadata was loaded into
THREADPRIO_DEFAULT == 44
DefaultIdealCore == 0
DefaultAddressSpaceType == "Is39Bit"

\* the capacity of a handle table, which is its size until SetSize is called
MAX_COUNT == 1024

\* FileSys::ProgramMetadata, as far as LoadFromMetadata reads it:
\* capabilities_valid tells whether InitializeForUserProcess accepts the
\* kernel capabilities, handle_table_size is the size they declare
NoMetadata ==
    [title_id |-> 0, main_thread_core |-> DefaultIdealCore, is_64bit |-> FALSE,
     address_space_type |-> DefaultAddressSpaceType, capabilities_valid |-> TRUE,
     handle_table_size |-> MAX_COUNT]

\* the arguments of a call that takes none
NoArgs == [metadata |-> NoMetadata, priority |-> 0, stack_size |-> 0, memory |-> 0]

NoThread == 0

\* the first process ID the kernel hands out, and the ID of no process
ProcessIDMin == 81
NoProcess == 0

\* Settings::values.rng_seed, a std::optional: no seed, or the seed v
NoSeed == [has_value |-> FALSE, value |-> 0]
Seed(v) == [has_value |-> TRUE, value |-> v]
ValueOr(opt, default) == IF opt.has_value THEN opt.value ELSE default

\* the words of Process::random_entropy
RANDOM_ENTROPY_SIZE == 4

VARIABLES
    status,                 \* Process::status
    is_signaled,            \* Process::is_signaled
    waiting_threads,        \* WaitObject::waiting_threads of the process
    threads,                \* GlobalScheduler's thread list, in creation order
    main_thread_stack_size, \* Process::main_thread_stack_size
    vm_map,                 \* regions mapped in the process's address space
    fatal,                  \* the assertion that ended the program, or "none"
    status_log,             \* history: every status the process has had
    last,                   \* history: the last call and what it returned
    signal_pending,         \* history: a status change happened since Create or
                            \* since the last successful ClearSignalState
    hle_lock,               \* the core holding the kernel-global lock, or 0
    cores,                  \* per core: where its host thread is in a handler
    tls_slots,              \* Process::tls_slots: per page, the slots whose bit is set
    tls_assigned,           \* history: the TLS addresses handed out and not freed
    tls_frees,              \* history: the number of FreeTLSSlot calls
    tls_last,               \* history: the last TLS call and what it returned
    program_id,             \* Process::program_id
    ideal_core,             \* Process::ideal_core
    is_64bit_process,       \* Process::is_64bit_process
    address_space_type,     \* the type the address space was last reset to
    handle_table,           \* Process::handle_table: handle h names thread handle_table[h]
    handle_table_size,      \* HandleTable::table_size of the process's handle table
    code_memory_size,       \* Process::code_memory_size
    heap_size,              \* the current heap size of the address space
    process_id,             \* Process::process_id, NoProcess while no process exists
    random_entropy,         \* Process::random_entropy
    kernel_core,            \* KernelCore: the next process ID, the process table,
                            \* the current process
    rng_seed,               \* Settings::values.rng_seed
    sys,                    \* System::Impl, with the history of the steps of Load
    broker,                 \* an AppletDataBroker: its channels and its events
    broker_log              \* history: per channel the storages pushed and popped,
                            \* and the last broker call and what it returned

wait_vars == <<hle_lock, cores>>
tls_vars == <<tls_slots, tls_assigned, tls_frees, tls_last>>
load_vars == <<program_id, ideal_core, is_64bit_process, address_space_type,
               handle_table, handle_table_size, code_memory_size, heap_size,
               process_id, random_entropy, kernel_core, rng_seed, sys,
               broker, broker_log>>

vars == <<status, is_signaled, waiting_threads, threads, main_thread_stack_size,
          vm_map, fatal, status_log, last, signal_pending, hle_lock, cores,
          tls_slots, tls_assigned, tls_frees, tls_last, program_id, ideal_core,
          is_64bit_process, address_space_type, handle_table,
          handle_table_size, code_memory_size, heap_size, process_id,
          random_entropy, kernel_core, rng_seed, sys, broker, broker_log>>

(***************************************************************************)
(* The kernel state the Process methods read and write, as one record, so  *)
(* that a method calling another is a composition of operators.            *)
(***************************************************************************)
Kernel ==
    [status |-> status, is_signaled |-> is_signaled, waiting |-> waiting_threads,
     threads |-> threads, stack_size |-> main_thread_stack_size, vm |-> vm_map,
     fatal |-> fatal, log |-> status_log, program_id |-> program_id,
     ideal_core |-> ideal_core, is_64bit |-> is_64bit_process,
     address_space_type |-> address_space_type, handles |-> handle_table,
     handle_table_size |-> handle_table_size, code_memory_size |-> code_memory_size,
     heap_size |-> heap_size, process_id |-> process_id,
     random_entropy |-> random_entropy, kernel_core |-> kernel_core,
     rng_seed |-> rng_seed, sys |-> sys]

Commit(k) ==
    /\ status' = k.status
    /\ is_signaled' = k.is_signaled
    /\ waiting_threads' = k.waiting
    /\ threads' = k.threads
    /\ main_thread_stack_size' = k.stack_size
    /\ vm_map' = k.vm
    /\ fatal' = k.fatal
    /\ status_log' = k.log
    /\ program_id' = k.program_id
    /\ ideal_core' = k.ideal_core
    /\ is_64bit_process' = k.is_64bit
    /\ address_space_type' = k.address_space_type
    /\ handle_table' = k.handles
    /\ handle_table_size' = k.handle_table_size
    /\ code_memory_size' = k.code_memory_size
    /\ heap_size' = k.heap_size
    /\ process_id' = k.process_id
    /\ random_entropy' = k.random_entropy
    /\ kernel_core' = k.kernel_core
    /\ rng_seed' = k.rng_seed
    /\ sys' = k.sys
    /\ UNCHANGED <<broker, broker_log>>

\* the record of a call: what was called, by which thread, what it returned, and
\* the status, signal, waiting list and number of past statuses it found
Call(op, thread, result) ==
    [op |-> op, thread |-> thread, result |-> result,
     status |-> status, is_signaled |-> is_signaled, waiting |-> waiting_threads,
     log_len |-> Len(status_log), args |-> NoArgs]

\* what the history holds after a step that is no call on the process
NoCall ==
    [op |-> "none", thread |-> NoThread, result |-> RESULT_SUCCESS,
     status |-> "Created", is_signaled |-> FALSE, waiting |-> {}, log_len |-> 0,
     args |-> NoArgs]

\* the history a call leaves: its record, and whether a signal is pending
RecordArgs(op, thread, result, args) ==
    /\ last' = [Call(op, thread, result) EXCEPT !.args = args]
    /\ signal_pending' =
          IF Len(status_log') > Len(status_log) THEN TRUE ELSE signal_pending

Record(op, thread, result) ==
    /\ last' = Call(op, thread, result)
    /\ signal_pending' =
          IF op = "ClearSignalState" /\ result = RESULT_SUCCESS THEN FALSE
          ELSE IF Len(status_log') > Len(status_log) THEN TRUE
          ELSE signal_pending

(***************************************************************************)
(* AppletDataBroker: four queues of storages between the game and an       *)
(* applet, and the events the applet side signals.                         *)
(***************************************************************************)
\* a null std::unique_ptr<IStorage>
NoStorage == 0

Channels == {"in_channel", "out_channel", "in_interactive_channel",
             "out_interactive_channel"}

\* AppletDataBroker::AppletDataBroker: the queues are empty, the three events
\* are created and not signaled
FreshBroker ==
    [in_channel |-> <<>>, out_channel |-> <<>>,
     in_interactive_channel |-> <<>>, out_interactive_channel |-> <<>>,
     state_changed_event |-> FALSE, pop_out_data_event |-> FALSE,
     pop_interactive_out_data_event |-> FALSE]

PopNormalDataToGame(b) ==
    IF b.out_channel = <<>> THEN [out |-> NoStorage, b |-> b]
    ELSE [out |-> Head(b.out_channel), b |-> [b EXCEPT !.out_channel = Tail(@)]]

\* mutant: the storage pushed last is taken
PopNormalDataToApplet_Back(b) ==
    IF b.in_channel = <<>> THEN [out |-> NoStorage, b |-> b]
    ELSE [out |-> b.in_channel[Len(b.in_channel)],
          b |-> [b EXCEPT !.in_channel = SubSeq(@, 1, Len(@) - 1)]]

PopNormalDataToApplet(b) ==
    IF b.in_channel = <<>> THEN [out |-> NoStorage, b |-> b]
    ELSE [out |-> Head(b.in_channel), b |-> [b EXCEPT !.in_channel = Tail(@)]]

PopInteractiveDataToGame(b) ==
    IF b.out_interactive_channel = <<>> THEN [out |-> NoStorage, b |-> b]
    ELSE [out |-> Head(b.out_interactive_channel),
          b |-> [b EXCEPT !.out_interactive_channel = Tail(@)]]

PopInteractiveDataToApplet(b) ==
    IF b.in_interactive_channel = <<>> THEN [out |-> NoStorage, b |-> b]
    ELSE [out |-> Head(b.in_interactive_channel),
          b |-> [b EXCEPT !.in_interactive_channel = Tail(@)]]

PushNormalDataFromGame(b, storage) ==
    [b EXCEPT !.in_channel = Append(@, storage)]

\* out_channel.push(...); pop_out_data_event.writable->Signal()
PushNormalDataFromApplet(b, storage) ==
    [b EXCEPT !.out_channel = Append(@, storage), !.pop_out_data_event = TRUE]

PushInteractiveDataFromGame(b, storage) ==
    [b EXCEPT !.in_interactive_channel = Append(@, storage)]

PushInteractiveDataFromApplet(b, storage) ==
    [b EXCEPT !.out_interactive_channel = Append(@, storage),
              !.pop_interactive_out_data_event = TRUE]

SignalStateChanged(b) == [b EXCEPT !.state_changed_event = TRUE]

\* history of a broker: nothing pushed, nothing popped, no call made
NoBrokerLog ==
    [pushed |-> [ch \in Channels |-> <<>>], popped |-> [ch \in Channels |-> <<>>],
     op |-> "none", out |-> NoStorage]

(***************************************************************************)
(* AppletManager: the five applet frontends the System holds.              *)
(***************************************************************************)
\* a null frontend pointer, and the frontend std::make_unique<Default...>
\* creates for a kind of applet
NoFrontend == "null"
DefaultFrontend == "default"

AppletKinds == {"error", "photo_viewer", "profile_select", "software_keyboard",
                "web_browser"}

\* AppletFrontendSet::AppletFrontendSet() = default: five null pointers
EmptyFrontendSet ==
    [error |-> NoFrontend, photo_viewer |-> NoFrontend, profile_select |-> NoFrontend,
     software_keyboard |-> NoFrontend, web_browser |-> NoFrontend]

SetAppletFrontendSet(frontend, set) ==
    [error |-> IF set.error # NoFrontend THEN set.error ELSE frontend.error,
     photo_viewer |-> IF set.photo_viewer # NoFrontend THEN set.photo_viewer
                      ELSE frontend.photo_viewer,
     profile_select |-> IF set.profile_select # NoFrontend THEN set.profile_select
                        ELSE frontend.profile_select,
     software_keyboard |-> IF set.software_keyboard # NoFrontend
                           THEN set.software_keyboard
                           ELSE frontend.software_keyboard,
     web_browser |-> IF set.web_browser # NoFrontend THEN set.web_browser
                     ELSE frontend.web_browser]

SetDefaultAppletFrontendSet(frontend) ==
    [error |-> DefaultFrontend, photo_viewer |-> DefaultFrontend,
     profile_select |-> DefaultFrontend, software_keyboard |-> DefaultFrontend,
     web_browser |-> DefaultFrontend]

\* mutant: every frontend is replaced by the default one
SetDefaultAppletsIfMissing_All(frontend) ==
    [error |-> DefaultFrontend, photo_viewer |-> DefaultFrontend,
     profile_select |-> DefaultFrontend, software_keyboard |-> DefaultFrontend,
     web_browser |-> DefaultFrontend]

SetDefaultAppletsIfMissing(frontend) ==
    [error |-> IF frontend.error = NoFrontend THEN DefaultFrontend
               ELSE frontend.error,
     photo_viewer |-> IF frontend.photo_viewer = NoFrontend THEN DefaultFrontend
                      ELSE frontend.photo_viewer,
     profile_select |-> IF frontend.profile_select = NoFrontend THEN DefaultFrontend
                        ELSE frontend.profile_select,
     software_keyboard |-> IF frontend.software_keyboard = NoFrontend
                           THEN DefaultFrontend
                           ELSE frontend.software_keyboard,
     web_browser |-> IF frontend.web_browser = NoFrontend THEN DefaultFrontend
                     ELSE frontend.web_browser]

\* AppletManager::ClearAll: frontend = {}
ClearAll(frontend) == EmptyFrontendSet

(***************************************************************************)
(* System::Init and Process::Create.  k.sys is System::Impl: the           *)
(* subsystems that exist, the flags, and the steps Load has taken so far;  *)
(* k.kernel_core is the kernel's process registry.                         *)
(***************************************************************************)
\* a System on which Load has not been called
FreshSystem ==
    [is_powered_on |-> FALSE, app_loader |-> FALSE, components |-> {},
     gpu_started |-> FALSE, cpu_threads_started |-> FALSE, status |-> "Success",
     frontend |-> EmptyFrontendSet, trace |-> <<>>]

\* the kernel as Initialize and Shutdown leave it: no process, the first ID next
FreshKernelCore ==
    [next_process_id |-> ProcessIDMin, process_list |-> <<>>,
     current_process |-> NoProcess]

\* the state while no process exists: the fields of Process hold what its
\* constructor gives them
NoProcessState(seed) ==
    [status |-> "Created", is_signaled |-> FALSE, waiting |-> {}, threads |-> <<>>,
     stack_size |-> 0, vm |-> {}, fatal |-> "none", log |-> <<>>,
     program_id |-> 0, ideal_core |-> DefaultIdealCore, is_64bit |-> FALSE,
     address_space_type |-> DefaultAddressSpaceType, handles |-> <<>>,
     handle_table_size |-> MAX_COUNT, code_memory_size |-> 0, heap_size |-> 0,
     process_id |-> NoProcess, random_entropy |-> <<>>,
     kernel_core |-> FreshKernelCore, rng_seed |-> seed, sys |-> FreshSystem]

\* the steps of Init, in the order it takes them
InitSteps == <<"core_timing", "cpu_core_manager", "kernel", "services", "renderer">>

\* System::Impl::Init: the subsystems are brought up; a renderer that fails
\* to initialise ends it before the GPU is created and the power flag is set
SystemInit(k, renderer_ok) ==
    LET k1 == [k EXCEPT !.kernel_core = FreshKernelCore,
                        !.sys.components =
                            @ \cup {"core_timing", "cpu_core_manager", "kernel",
                                    "telemetry_session", "services", "renderer"},
                        !.sys.frontend = SetDefaultAppletsIfMissing(@),
                        !.sys.trace = @ \o InitSteps]
    IN  IF ~renderer_ok THEN [result |-> "ErrorVideoCore", k |-> k1]
        ELSE [result |-> "Success",
              k |-> [k1 EXCEPT !.sys.components = @ \cup {"gpu_core"},
                               !.sys.is_powered_on = TRUE,
                               !.sys.trace = Append(@, "gpu_core")]]

\* the generator behind the entropy buffer: a deterministic engine whose
\* state is one unsigned word (multiplier and increment of the step)
RngMultiplier == 421
RngIncrement == 1663
RngNext(x) == (RngMultiplier * x + RngIncrement) % WordModulus

\* std::generate over n words, the engine being in state x
RECURSIVE Generate(_, _)
Generate(x, n) ==
    IF n = 0 THEN <<>> ELSE <<RngNext(x)>> \o Generate(RngNext(x), n - 1)

\* the entropy buffer Create fills: the engine is seeded with the configured
\* seed, or with 0 when none is configured
CreateEntropy(seed) == Generate(ValueOr(seed, 0), RANDOM_ENTROPY_SIZE)

\* KernelCore::CreateNewProcessID: the next ID is handed out and counted up
CreateNewProcessID(kc) ==
    [id |-> kc.next_process_id,
     kc |-> [kc EXCEPT !.next_process_id = (@ + 1) % WordModulus]]

\* what the process table shows of a process: its ID and its entropy
\* buffer, and (history) the status and program ID Create left it with and
\* the seed that was configured then
Registered(process, seed) ==
    [process_id |-> process.process_id, status |-> process.status,
     program_id |-> process.program_id, random_entropy |-> process.random_entropy,
     rng_seed |-> seed]

\* KernelCore::AppendNewProcess
AppendNewProcess(kc, process) ==
    [kc EXCEPT !.process_list = Append(@, process)]

\* mutant: every process gets the first process ID
Create_FirstID(k) ==
    LET new == CreateNewProcessID(k.kernel_core)
        process == [NoProcessState(k.rng_seed) EXCEPT
                       !.log = <<"Created">>,
                       !.process_id = ProcessIDMin,
                       !.random_entropy = CreateEntropy(k.rng_seed),
                       !.sys = k.sys]
    IN  [process EXCEPT
            !.kernel_core = AppendNewProcess(new.kc, Registered(process, k.rng_seed))]

\* Process::Create: a new process object, whose fields hold what the
\* constructor and Create give them, registered with the kernel
Create(k) ==
    LET new == CreateNewProcessID(k.kernel_core)
        process == [NoProcessState(k.rng_seed) EXCEPT
                       !.status = "Created",
                       !.log = <<"Created">>,
                       !.program_id = 0,
                       !.process_id = new.id,
                       !.random_entropy = CreateEntropy(k.rng_seed),
                       !.sys = k.sys]
    IN  [process EXCEPT
            !.kernel_core = AppendNewProcess(new.kc, Registered(process, k.rng_seed))]

\* the system when Load has obtained a loader and Init has succeeded
BootedSystem ==
    SystemInit([NoProcessState(NoSeed) EXCEPT !.sys.app_loader = TRUE,
                                              !.sys.trace = <<"loader">>],
               TRUE).k

\* the process as Process::Create leaves it
FreshProcess == Create(BootedSystem)

(***************************************************************************)
(* WaitObject contract of Process.                                         *)
(***************************************************************************)
ShouldWait(k, thread) == ~k.is_signaled

\* mutant: acquiring consumes the signal, as an auto-reset object would
Acquire_Consuming(k, thread) ==
    IF ShouldWait(k, thread) THEN [k EXCEPT !.fatal = "Acquire"]
    ELSE [k EXCEPT !.is_signaled = FALSE]

Acquire(k, thread) ==
    IF ShouldWait(k, thread) THEN [k EXCEPT !.fatal = "Acquire"] ELSE k

\* Thread::ResumeFromWait: a dormant or waiting thread becomes ready
ResumeFromWait(k, t) == [k EXCEPT !.threads[t].status = "Ready"]

\* WaitObject::WakeupAllWaitingThreads: every waiting thread the object no
\* longer asks to wait leaves the waiting list and is resumed
RECURSIVE WakeupAllWaitingThreads(_)
WakeupAllWaitingThreads(k) ==
    LET ready == {t \in k.waiting : ~ShouldWait(k, t)} IN
    IF ready = {} THEN k
    ELSE LET t == CHOOSE x \in ready : \A y \in ready : x <= y IN
         WakeupAllWaitingThreads(ResumeFromWait([k EXCEPT !.waiting = @ \ {t}], t))

\* mutant: the status changes without the signal being raised
ChangeStatus_NoSignal(k, new_status) ==
    IF k.status = new_status THEN k
    ELSE WakeupAllWaitingThreads(
             [k EXCEPT !.status = new_status, !.log = Append(@, new_status)])

\* mutant: a single waiter is woken instead of all of them
ChangeStatus_WakeOne(k, new_status) ==
    IF k.status = new_status THEN k
    ELSE LET k1 == [k EXCEPT !.status = new_status,
                             !.is_signaled = TRUE,
                             !.log = Append(@, new_status)]
         IN  IF k1.waiting = {} THEN k1
             ELSE LET t == CHOOSE x \in k1.waiting : \A y \in k1.waiting : x <= y IN
                  ResumeFromWait([k1 EXCEPT !.waiting = @ \ {t}], t)

\* the statements of ChangeStatus: status = new_status; is_signaled = true
SetStatus(k, new_status) ==
    [k EXCEPT !.status = new_status, !.log = Append(@, new_status)]

SetSignaled(k) == [k EXCEPT !.is_signaled = TRUE]

ChangeStatus(k, new_status) ==
    IF k.status = new_status THEN k
    ELSE WakeupAllWaitingThreads(SetSignaled(SetStatus(k, new_status)))

\* mutant: the check for a terminated process is missing
ClearSignalState_NoExitedCheck(k) ==
    IF ~k.is_signaled THEN [result |-> ERR_INVALID_STATE, k |-> k]
    ELSE [result |-> RESULT_SUCCESS, k |-> [k EXCEPT !.is_signaled = FALSE]]

\* the result code of ClearSignalState and the state it leaves
ClearSignalState(k) ==
    IF k.status = "Exited" THEN [result |-> ERR_INVALID_STATE, k |-> k]
    ELSE IF ~k.is_signaled THEN [result |-> ERR_INVALID_STATE, k |-> k]
    ELSE [result |-> RESULT_SUCCESS, k |-> [k EXCEPT !.is_signaled = FALSE]]

(***************************************************************************)
(* Address-space manager: MapMemoryBlock rejects a range that intersects a *)
(* mapped region.                                                          *)
(***************************************************************************)
Overlaps(r, base, size) == base < r.base + r.size /\ r.base < base + size

MapMemoryBlock(vm, base, size, state) ==
    IF \E r \in vm : Overlaps(r, base, size)
    THEN [ok |-> FALSE, vm |-> vm]
    ELSE [ok |-> TRUE, vm |-> vm \cup {[base |-> base, size |-> size, state |-> state]}]

\* Common::AlignUp, in unsigned arithmetic
AlignUp(value, size) == (value + ((size - (value % size)) % size)) % WordModulus

(***************************************************************************)
(* Process::Run and SetupMainThread.                                       *)
(***************************************************************************)
\* the entry point and the stack top a guest passes for a thread it creates
GuestEntryPoint == CodeRegionBaseAddress + PAGE_SIZE
GuestStackTop == TLSIORegionBaseAddress

\* a thread as Thread::Create leaves it: dormant, register 1 not yet written
NewThread(owner, entry_point, priority, processor_id, stack_top) ==
    [owner |-> owner, status |-> "Dormant", priority |-> priority,
     ideal_core |-> processor_id, reg1 |-> 0,
     entry_point |-> entry_point, stack_top |-> stack_top]

\* Thread::Create: the new thread is dormant and joins the global thread list
ThreadCreate(k, owner, entry_point, priority, processor_id, stack_top) ==
    [k EXCEPT !.threads =
        Append(@, NewThread(owner, entry_point, priority, processor_id, stack_top))]

\* HandleTable::Create: the object gets the next handle, which is not zero
HandleTableCreate(k, thread) ==
    [handle |-> Len(k.handles) + 1, k |-> [k EXCEPT !.handles = Append(@, thread)]]

\* mutant: the main thread is left dormant
SetupMainThread_NoResume(k, priority) ==
    LET entry_point == CodeRegionBaseAddress
        stack_top == TLSIORegionEndAddress
        k1 == ThreadCreate(k, "P", entry_point, priority, k.ideal_core, stack_top)
        thread == Len(k1.threads)
        h == HandleTableCreate(k1, thread)
    IN  [h.k EXCEPT !.threads[thread].reg1 = h.handle]

\* mutant: the main thread is created on the default core
SetupMainThread_DefaultCore(k, priority) ==
    LET entry_point == CodeRegionBaseAddress
        stack_top == TLSIORegionEndAddress
        k1 == ThreadCreate(k, "P", entry_point, priority, DefaultIdealCore, stack_top)
        thread == Len(k1.threads)
        h == HandleTableCreate(k1, thread)
    IN  ResumeFromWait([h.k EXCEPT !.threads[thread].reg1 = h.handle], thread)

SetupMainThread(k, priority) ==
    LET entry_point == CodeRegionBaseAddress
        stack_top == TLSIORegionEndAddress
        k1 == ThreadCreate(k, "P", entry_point, priority, k.ideal_core, stack_top)
        thread == Len(k1.threads)
        h == HandleTableCreate(k1, thread)
    IN  ResumeFromWait([h.k EXCEPT !.threads[thread].reg1 = h.handle], thread)

\* mutant: the requested size is rounded down to the page size
RunAlign_Down(k, stack_size) ==
    [k EXCEPT !.stack_size = stack_size - (stack_size % PAGE_SIZE)]

\* Run: main_thread_stack_size = AlignUp(stack_size, PAGE_SIZE)
RunAlign(k, stack_size) == [k EXCEPT !.stack_size = AlignUp(stack_size, PAGE_SIZE)]

\* mutant: the stack is mapped from the base of the TLS/IO region up
RunMap_AtBase(k) ==
    LET mapping_address == TLSIORegionBaseAddress
        m == MapMemoryBlock(k.vm, mapping_address, k.stack_size, "Stack")
    IN  IF ~m.ok THEN [k EXCEPT !.fatal = "Unwrap"] ELSE [k EXCEPT !.vm = m.vm]

\* Run: the stack is mapped right below the end of the TLS/IO region
RunMap(k) ==
    LET mapping_address == (TLSIORegionEndAddress - k.stack_size) % WordModulus
        m == MapMemoryBlock(k.vm, mapping_address, k.stack_size, "Stack")
    IN  IF ~m.ok THEN [k EXCEPT !.fatal = "Unwrap"] ELSE [k EXCEPT !.vm = m.vm]

Run(k, main_thread_priority, stack_size) ==
    LET k1 == RunMap(RunAlign(k, stack_size)) IN
    IF k1.fatal # "none" THEN k1
    ELSE SetupMainThread(ChangeStatus(k1, "Running"), main_thread_priority)

(***************************************************************************)
(* Process::LoadFromMetadata.                                              *)
(***************************************************************************)
ERR_INVALID_CAPABILITY == "ERR_INVALID_CAPABILITY"
ERR_OUT_OF_MEMORY == "ERR_OUT_OF_MEMORY"

\* VMManager::Reset: the mappings and the heap are dropped and the layout is
\* that of the type
VMReset(k, type) ==
    [k EXCEPT !.vm = {}, !.heap_size = 0, !.address_space_type = type]

\* ProcessCapabilities::InitializeForUserProcess: the result code of parsing
\* the kernel capabilities the metadata declares
InitializeForUserProcess(k, metadata) ==
    IF metadata.capabilities_valid THEN RESULT_SUCCESS ELSE ERR_INVALID_CAPABILITY

\* HandleTable::SetSize: a size beyond the capacity is refused and the table
\* keeps its size
HandleTableSetSize(k, size) ==
    IF size > MAX_COUNT
    THEN [result |-> ERR_OUT_OF_MEMORY, k |-> k]
    ELSE [result |-> RESULT_SUCCESS, k |-> [k EXCEPT !.handle_table_size = size]]

\* LoadFromMetadata up to the reset of the address space
LoadFromMetadataApply(k, metadata) ==
    VMReset([k EXCEPT !.program_id = metadata.title_id,
                      !.ideal_core = metadata.main_thread_core,
                      !.is_64bit = metadata.is_64bit],
            metadata.address_space_type)

\* mutant: the handle table is sized before the capability result is looked at
LoadFromMetadata_ResizeFirst(k, metadata) ==
    LET k1 == LoadFromMetadataApply(k, metadata)
        sized == HandleTableSetSize(k1, metadata.handle_table_size)
        capability_init_result == InitializeForUserProcess(k1, metadata)
    IN  IF capability_init_result # RESULT_SUCCESS
        THEN [result |-> capability_init_result, k |-> sized.k]
        ELSE sized

\* mutant: a capability error leaves the process as it was
LoadFromMetadata_Atomic(k, metadata) ==
    LET k1 == LoadFromMetadataApply(k, metadata)
        capability_init_result == InitializeForUserProcess(k1, metadata)
    IN  IF capability_init_result # RESULT_SUCCESS
        THEN [result |-> capability_init_result, k |-> k]
        ELSE HandleTableSetSize(k1, metadata.handle_table_size)

\* the result code of LoadFromMetadata and the state it leaves
LoadFromMetadata(k, metadata) ==
    LET k1 == LoadFromMetadataApply(k, metadata)
        capability_init_result == InitializeForUserProcess(k1, metadata)
    IN  IF capability_init_result # RESULT_SUCCESS
        THEN [result |-> capability_init_result, k |-> k1]
        ELSE HandleTableSetSize(k1, metadata.handle_table_size)

(***************************************************************************)
(* Process::PrepareForTermination.                                         *)
(***************************************************************************)
\* Thread::Stop: the thread is dead and waits on nothing any more
ThreadStop(k, t) ==
    [k EXCEPT !.threads[t].status = "Dead", !.waiting = @ \ {t}]

\* stop_threads: the two tests that make the loop pass over thread i
SweepSkips(k, current, i) == k.threads[i].owner # "P" \/ i = current

\* stop_threads: the condition of the assertion on thread i
SweepFindsWaiting(k, i) == k.threads[i].status = "WaitSynch"

\* mutant: a thread that does not wait is passed over instead of asserted on
RECURSIVE stop_threads_SkipNonWaiting(_, _, _)
stop_threads_SkipNonWaiting(k, current, i) ==
    IF i > Len(k.threads) THEN k
    ELSE IF SweepSkips(k, current, i) \/ ~SweepFindsWaiting(k, i)
         THEN stop_threads_SkipNonWaiting(k, current, i + 1)
    ELSE stop_threads_SkipNonWaiting(ThreadStop(k, i), current, i + 1)

\* the stop_threads lambda over the global thread list, from index i on;
\* current is the calling core's current thread
RECURSIVE stop_threads(_, _, _)
stop_threads(k, current, i) ==
    IF i > Len(k.threads) THEN k
    ELSE IF SweepSkips(k, current, i) THEN stop_threads(k, current, i + 1)
    ELSE IF ~SweepFindsWaiting(k, i)
         THEN [k EXCEPT !.fatal = "PrepareForTermination"]
    ELSE stop_threads(ThreadStop(k, i), current, i + 1)

PrepareForTermination(k, current) ==
    LET k1 == ChangeStatus(k, "Exiting")
        k2 == stop_threads(k1, current, 1)
    IN  IF k2.fatal # "none" THEN k2 ELSE ChangeStatus(k2, "Exited")

(***************************************************************************)
(* Process::LoadModule and the memory accessors.  A CodeSet is its memory  *)
(* image (here: its size) and its code, read-only data and data segments,  *)
(* each an address and a size.                                             *)
(***************************************************************************)
\* std::move(module_.memory) into the shared block: the block has the image,
\* and the vector moved from is left empty
MoveMemory(module_) ==
    [memory |-> module_.memory, module_ |-> [module_ EXCEPT !.memory = 0]]

\* the MapSegment lambda: MapMemoryBlock(segment.addr + base_addr, ...).Unwrap();
\* the permissions Reprotect sets are not part of a region here
MapSegment(k, segment, base_addr, memory_state) ==
    IF k.fatal # "none" THEN k
    ELSE LET m == MapMemoryBlock(k.vm, (segment.addr + base_addr) % WordModulus,
                                 segment.size, memory_state)
         IN  IF ~m.ok THEN [k EXCEPT !.fatal = "Unwrap"] ELSE [k EXCEPT !.vm = m.vm]

\* LoadModule: the state it leaves; code_memory_size grows by the size the
\* CodeSet's vector has after the image was moved out of it
LoadModule(k, module_, base_addr) ==
    LET moved == MoveMemory(module_)
        k1 == MapSegment(k, moved.module_.code, base_addr, "Code")
        k2 == MapSegment(k1, moved.module_.rodata, base_addr, "CodeData")
        k3 == MapSegment(k2, moved.module_.data, base_addr, "CodeData")
    IN  IF k3.fatal # "none" THEN k3
        ELSE [k3 EXCEPT !.code_memory_size = (@ + moved.module_.memory) % WordModulus]

\* GetTotalPhysicalMemoryUsed
GetTotalPhysicalMemoryUsed(k) ==
    (k.heap_size + k.stack_size + k.code_memory_size) % WordModulus

(***************************************************************************)
(* System::Load and System::Shutdown.                                      *)
(***************************************************************************)
\* a step of Load joins the history of its steps
Trace(k, step) == [k EXCEPT !.sys.trace = Append(@, step)]

\* mutant: the power flag survives the shutdown
Shutdown_StaysPowered(k) ==
    [NoProcessState(k.rng_seed) EXCEPT
        !.fatal = k.fatal,
        !.sys = [k.sys EXCEPT !.trace = Append(@, "Shutdown")]]

\* System::Impl::Shutdown: the power flag is cleared, every subsystem and the
\* loader are released, the kernel drops its processes
Shutdown(k) ==
    [NoProcessState(k.rng_seed) EXCEPT
        !.fatal = k.fatal,
        !.sys = [FreshSystem EXCEPT !.status = k.sys.status,
                                    !.frontend = ClearAll(k.sys.frontend),
                                    !.trace = Append(k.sys.trace, "Shutdown")]]

\* AppLoader::Load: the loader reads the program image, hands its metadata
\* to LoadFromMetadata and its code set to LoadModule
AppLoaderLoad(k, image) ==
    IF ~image.readable THEN [result |-> "ErrorBadFile", k |-> k]
    ELSE LET m == LoadFromMetadata(k, image.metadata) IN
         IF m.result # RESULT_SUCCESS THEN [result |-> "ErrorMetadata", k |-> m.k]
         ELSE [result |-> "Success",
               k |-> LoadModule(m.k, image.module_, CodeRegionBaseAddress)]

MakeCurrentProcess(k) ==
    Trace([k EXCEPT !.kernel_core.current_process = k.process_id],
          "MakeCurrentProcess")

GpuStart(k) == Trace([k EXCEPT !.sys.gpu_started = TRUE], "gpu_start")

StartThreads(k) == Trace([k EXCEPT !.sys.cpu_threads_started = TRUE], "StartThreads")

\* main_process->Run(...); status = ResultStatus::Success
RunMainProcess(k, image) ==
    LET k1 == Run(Trace(k, "Run"), image.main_thread_priority,
                  image.main_thread_stack_size)
    IN  IF k1.fatal # "none" THEN k1 ELSE [k1 EXCEPT !.sys.status = "Success"]

\* mutant: the main process runs before the GPU and the CPU threads start
BeginExecution_RunFirst(k, image) ==
    LET k1 == RunMainProcess(MakeCurrentProcess(k), image) IN
    IF k1.fatal # "none" THEN k1 ELSE StartThreads(GpuStart(k1))

\* Load from MakeCurrentProcess on: the process is made current, the GPU and
\* the CPU threads start, and the main process runs
BeginExecution(k, image) ==
    RunMainProcess(StartThreads(GpuStart(MakeCurrentProcess(k))), image)

\* System::Impl::Load: the status it returns and the state it leaves
SystemLoad(k, loader_ok, renderer_ok, image) ==
    IF ~loader_ok
    THEN [result |-> "ErrorGetLoader",
          k |-> [k EXCEPT !.sys.app_loader = FALSE, !.sys.trace = <<>>]]
    ELSE LET k0 == [k EXCEPT !.sys.app_loader = TRUE, !.sys.trace = <<"loader">>]
             init == SystemInit(k0, renderer_ok)
         IN  IF init.result # "Success"
             THEN [result |-> init.result, k |-> Shutdown(init.k)]
             ELSE LET main_process == Trace(Create(init.k), "Create")
                      loaded == AppLoaderLoad(main_process, image)
                  IN  IF loaded.result # "Success"
                      THEN [result |-> "ErrorLoader", k |-> Shutdown(loaded.k)]
                      ELSE [result |-> "Success",
                            k |-> BeginExecution(Trace(loaded.k, "Load"), image)]

(***************************************************************************)
(* TLS slots.  tls_slots[p + 1] is the bitset of page p: the set of the    *)
(* slot indices whose bit is set.                                          *)
(***************************************************************************)
Slots == 0..(SlotsPerPage - 1)

\* the inner loop: the first slot from slot on whose bit is clear
RECURSIVE FirstClearSlot(_, _)
FirstClearSlot(page_tls_slots, slot) ==
    IF slot \notin page_tls_slots THEN slot
    ELSE FirstClearSlot(page_tls_slots, slot + 1)

\* mutant: the slots of a page are scanned from the highest down
RECURSIVE LastClearSlot(_, _)
LastClearSlot(page_tls_slots, slot) ==
    IF (SlotsPerPage - 1 - slot) \notin page_tls_slots THEN SlotsPerPage - 1 - slot
    ELSE LastClearSlot(page_tls_slots, slot + 1)

\* the outer loop, from page on: (page, slot, alloc_needed)
RECURSIVE FindFrom(_, _)
FindFrom(slots, page) ==
    IF page >= Len(slots) THEN [page |-> 0, slot |-> 0, alloc_needed |-> TRUE]
    ELSE IF slots[page + 1] # Slots
         THEN [page |-> page, slot |-> FirstClearSlot(slots[page + 1], 0),
               alloc_needed |-> FALSE]
    ELSE FindFrom(slots, page + 1)

\* mutant: the scan starts at the last page
FindFreeThreadLocalSlot_LastPageFirst(slots) ==
    IF Len(slots) > 0 /\ slots[Len(slots)] # Slots
    THEN [page |-> Len(slots) - 1, slot |-> FirstClearSlot(slots[Len(slots)], 0),
          alloc_needed |-> FALSE]
    ELSE FindFrom(slots, 0)

\* mutant: within the page the last clear slot is taken
FindFreeThreadLocalSlot_LastSlot(slots) ==
    LET f == FindFrom(slots, 0) IN
    IF f.alloc_needed THEN f
    ELSE [f EXCEPT !.slot = LastClearSlot(slots[f.page + 1], 0)]

\* mutant: a page counts as usable only when none of its bits is set
FindFreeThreadLocalSlot_NoneForAll(slots) ==
    LET empty == {p \in 0..(Len(slots) - 1) : slots[p + 1] = {}} IN
    IF empty = {} THEN [page |-> 0, slot |-> 0, alloc_needed |-> TRUE]
    ELSE [page |-> CHOOSE p \in empty : \A q \in empty : p <= q, slot |-> 0,
          alloc_needed |-> FALSE]

FindFreeThreadLocalSlot(slots) == FindFrom(slots, 0)

\* the address of slot `slot` of page `page`
TLSAddress(page, slot) ==
    TLSIORegionBaseAddress + page * PAGE_SIZE + slot * TLS_ENTRY_SIZE

\* mutant: the bit of the slot handed out is not set
MarkNextAvailableTLSSlotAsUsed_NoSet(slots, vm) ==
    LET f == FindFreeThreadLocalSlot(slots)
        slots1 == IF f.alloc_needed THEN Append(slots, {}) ELSE slots
        available_page == IF f.alloc_needed THEN Len(slots1) - 1 ELSE f.page
        available_slot == IF f.alloc_needed THEN 0 ELSE f.slot
        vm1 == IF f.alloc_needed
               THEN MapMemoryBlock(vm, TLSIORegionBaseAddress + available_page * PAGE_SIZE,
                                   PAGE_SIZE, "ThreadLocal").vm
               ELSE vm
    IN  [addr |-> TLSAddress(available_page, available_slot),
         page |-> available_page, slot |-> available_slot,
         needs_allocation |-> f.alloc_needed, slots |-> slots1, vm |-> vm1]

\* what MarkNextAvailableTLSSlotAsUsed returns, and the bitsets and the
\* address space it leaves; the result of mapping the new page is not looked at
MarkNextAvailableTLSSlotAsUsed(slots, vm) ==
    LET f == FindFreeThreadLocalSlot(slots)
        tls_begin == TLSIORegionBaseAddress
        slots1 == IF f.alloc_needed THEN Append(slots, {}) ELSE slots
        available_page == IF f.alloc_needed THEN Len(slots1) - 1 ELSE f.page
        available_slot == IF f.alloc_needed THEN 0 ELSE f.slot
        vm1 == IF f.alloc_needed
               THEN MapMemoryBlock(vm, tls_begin + available_page * PAGE_SIZE,
                                   PAGE_SIZE, "ThreadLocal").vm
               ELSE vm
    IN  [addr |-> tls_begin + available_page * PAGE_SIZE
                  + available_slot * TLS_ENTRY_SIZE,
         page |-> available_page, slot |-> available_slot,
         needs_allocation |-> f.alloc_needed,
         slots |-> [slots1 EXCEPT ![available_page + 1] = @ \cup {available_slot}],
         vm |-> vm1]

\* the page and the slot FreeTLSSlot computes from an address
TLSPageOf(tls_address) == (tls_address - TLSIORegionBaseAddress) \div PAGE_SIZE
TLSSlotOf(tls_address) ==
    ((tls_address - TLSIORegionBaseAddress) % PAGE_SIZE) \div TLS_ENTRY_SIZE

\* the address lies in an allocated page; below the region base the unsigned
\* difference wraps to a page index beyond any vector
InAllocatedPage(slots, tls_address) ==
    /\ tls_address >= TLSIORegionBaseAddress
    /\ TLSPageOf(tls_address) < Len(slots)

\* tls_slots[tls_page] is an unchecked vector access: outside the allocated
\* pages the build either ends the program at the access or clears a bit of
\* memory that belongs to no bitset
OutOfBoundsOutcomes == {"trap", "stray_write"}

\* mutant: a page whose last slot is freed is given back when it is the last page
FreeTLSSlot_ReclaimEmptyPage(slots, tls_address) ==
    LET page == TLSPageOf(tls_address)
        cleared == [slots EXCEPT ![page + 1] = @ \ {TLSSlotOf(tls_address)}]
    IN  IF page + 1 = Len(slots) /\ cleared[page + 1] = {}
        THEN SubSeq(cleared, 1, Len(slots) - 1)
        ELSE cleared

\* the bitsets FreeTLSSlot leaves, for an address inside an allocated page
FreeTLSSlot(slots, tls_address) ==
    [slots EXCEPT ![TLSPageOf(tls_address) + 1] = @ \ {TLSSlotOf(tls_address)}]

\* the record of a TLS call: the address returned or freed, its page and slot,
\* whether a page was allocated, the bitsets the call found; freed holds the
\* address the call right before freed (empty when it was no FreeTLSSlot),
\* and lower_free tells whether a slot below it was clear when it was freed
TLSCall(op, addr, page, slot, needs_allocation, freed, lower_free) ==
    [op |-> op, addr |-> addr, page |-> page, slot |-> slot,
     needs_allocation |-> needs_allocation, before |-> tls_slots,
     freed |-> freed, lower_free |-> lower_free]

NoTLSCall == [op |-> "none", addr |-> 0, page |-> 0, slot |-> 0,
              needs_allocation |-> FALSE, before |-> <<>>,
              freed |-> {}, lower_free |-> FALSE]

(***************************************************************************)
(* Spec: the handlers as steps.                                            *)
(***************************************************************************)
ThreadIds == 1..Len(threads)
RunningThreads == {t \in ThreadIds : threads[t].status = "Running"}
Alive == fatal = "none"

\* Process::Create
Init ==
    /\ status = "Created"
    /\ is_signaled = FALSE
    /\ waiting_threads = {}
    /\ threads = <<>>
    /\ main_thread_stack_size = 0
    /\ vm_map = {}
    /\ fatal = "none"
    /\ status_log = <<"Created">>
    /\ last = Call("Create", NoThread, RESULT_SUCCESS)
    /\ signal_pending = FALSE
    /\ hle_lock = 0
    /\ cores = <<>>
    /\ tls_slots = <<>>
    /\ tls_assigned = {}
    /\ tls_frees = 0
    /\ tls_last = NoTLSCall
    /\ program_id = 0
    /\ ideal_core = DefaultIdealCore
    /\ is_64bit_process = FALSE
    /\ address_space_type = DefaultAddressSpaceType
    /\ handle_table = <<>>
    /\ handle_table_size = FreshProcess.handle_table_size
    /\ code_memory_size = FreshProcess.code_memory_size
    /\ heap_size = FreshProcess.heap_size
    /\ process_id = FreshProcess.process_id
    /\ random_entropy = FreshProcess.random_entropy
    /\ kernel_core = FreshProcess.kernel_core
    /\ rng_seed = FreshProcess.rng_seed
    /\ sys = FreshProcess.sys
    /\ broker = FreshBroker
    /\ broker_log = NoBrokerLog

RunCall ==
    /\ Alive
    /\ UNCHANGED <<wait_vars, tls_vars>>
    /\ Len(threads) < MaxThreads
    /\ Len(status_log) <= MaxStatusChanges
    /\ \E stack_size \in StackSizes :
          Commit(Run(Kernel, THREADPRIO_DEFAULT, stack_size))
    /\ Record("Run", NoThread, RESULT_SUCCESS)

PrepareForTerminationCall ==
    /\ Alive
    /\ UNCHANGED <<wait_vars, tls_vars>>
    /\ Len(status_log) + 1 <= MaxStatusChanges
    /\ \E current \in RunningThreads \cup {NoThread} :
          /\ Commit(PrepareForTermination(Kernel, current))
          /\ Record("PrepareForTermination", current, RESULT_SUCCESS)

ClearSignalStateCall ==
    /\ Alive
    /\ UNCHANGED <<wait_vars, tls_vars>>
    /\ LET r == ClearSignalState(Kernel) IN
          /\ Commit(r.k)
          /\ Record("ClearSignalState", NoThread, r.result)

ShouldWaitCall ==
    /\ Alive
    /\ UNCHANGED <<wait_vars, tls_vars>>
    /\ \E t \in ThreadIds :
          /\ Commit(Kernel)
          /\ Record("ShouldWait", t, ShouldWait(Kernel, t))

AcquireCall ==
    /\ Alive
    /\ UNCHANGED <<wait_vars, tls_vars>>
    /\ \E t \in ThreadIds :
          /\ Commit(Acquire(Kernel, t))
          /\ Record("Acquire", t, RESULT_SUCCESS)

\* svcWaitSynchronization on the process by the running thread t
WaitSynchronization ==
    /\ Alive
    /\ UNCHANGED <<wait_vars, tls_vars>>
    /\ \E t \in RunningThreads :
          /\ IF ShouldWait(Kernel, t)
             THEN Commit([Kernel EXCEPT !.waiting = @ \cup {t},
                                        !.threads[t].status = "WaitSynch"])
             ELSE Commit(Acquire(Kernel, t))
          /\ Record("WaitSynchronization", t, ShouldWait(Kernel, t))

\* a thread is created and started: one of this process by one of its running
\* threads, one of another process at any time
CreateThread ==
    /\ Alive
    /\ UNCHANGED <<wait_vars, tls_vars>>
    /\ Len(threads) < MaxThreads
    /\ \E owner \in {"P", "Q"} :
          /\ owner = "P" => \E t \in RunningThreads : threads[t].owner = "P"
          /\ LET k1 == ThreadCreate(Kernel, owner, GuestEntryPoint, THREADPRIO_DEFAULT,
                                   DefaultIdealCore, GuestStackTop) IN
             Commit(ResumeFromWait(k1, Len(k1.threads)))
    /\ last' = NoCall /\ UNCHANGED signal_pending

\* the scheduler of a core switches to a ready thread, or away from its thread
Schedule ==
    /\ Alive
    /\ UNCHANGED <<wait_vars, tls_vars>>
    /\ UNCHANGED <<status, is_signaled, waiting_threads, main_thread_stack_size,
                   vm_map, fatal, status_log, load_vars>>
    /\ \E t \in ThreadIds :
          /\ \/ /\ threads[t].status = "Ready"
                /\ threads' = [threads EXCEPT ![t].status = "Running"]
             \/ /\ threads[t].status = "Running"
                /\ threads' = [threads EXCEPT ![t].status = "Ready"]
          /\ last' = NoCall /\ UNCHANGED signal_pending

\* a running thread waits on another object than the process, or that object
\* wakes it
WaitOther ==
    /\ Alive
    /\ UNCHANGED <<wait_vars, tls_vars>>
    /\ UNCHANGED <<status, is_signaled, waiting_threads, main_thread_stack_size,
                   vm_map, fatal, status_log, load_vars>>
    /\ \E t \in ThreadIds :
          /\ \/ /\ threads[t].status = "Running"
                /\ threads' = [threads EXCEPT ![t].status = "WaitSynch"]
             \/ /\ threads[t].status = "WaitSynch"
                /\ t \notin waiting_threads
                /\ threads' = [threads EXCEPT ![t].status = "Ready"]
          /\ last' = NoCall /\ UNCHANGED signal_pending

Next ==
    \/ RunCall
    \/ PrepareForTerminationCall
    \/ ClearSignalStateCall
    \/ ShouldWaitCall
    \/ AcquireCall
    \/ WaitSynchronization
    \/ CreateThread
    \/ Schedule
    \/ WaitOther

Spec == Init /\ [][Next]_vars

(***************************************************************************)
(* SpecWait: one host thread per core.  Thread c is the current thread of  *)
(* core c.  A core enters a handler through the kernel-global lock and     *)
(* runs it statement by statement: the waiter path (ShouldWait, then block *)
(* or Acquire), ChangeStatus, ClearSignalState.                            *)
(***************************************************************************)
Cores == 1..NumCores

\* the arguments Run and PrepareForTermination pass to ChangeStatus
NewStatuses == {"Running", "Exiting", "Exited"}

\* mutant: a core enters the kernel without taking the lock
CanEnter_NoLock(c) == TRUE

\* the kernel-global lock is free
CanEnter(c) == hle_lock = 0

At(c, pc) == cores[c].pc = pc
Goto(c, pc) == cores' = [cores EXCEPT ![c].pc = pc]
InHandler(c) == ~At(c, "guest")

\* a core running guest code; the locals of its last handler are gone
IdleCore == [pc |-> "guest", new_status |-> "Created", should_wait |-> FALSE,
             priority |-> 0, stack_size |-> 0, i |-> 0]

InitWait ==
    /\ status = "Created"
    /\ is_signaled = FALSE
    /\ waiting_threads = {}
    /\ threads = [c \in Cores |->
                     [NewThread("Q", GuestEntryPoint, THREADPRIO_DEFAULT, c - 1,
                                GuestStackTop) EXCEPT !.status = "Running"]]
    /\ main_thread_stack_size = 0
    /\ vm_map = {}
    /\ fatal = "none"
    /\ status_log = <<"Created">>
    /\ last = Call("Create", NoThread, RESULT_SUCCESS)
    /\ signal_pending = FALSE
    /\ hle_lock = 0
    /\ cores = [c \in Cores |-> IdleCore]
    /\ tls_slots = <<>>
    /\ tls_assigned = {}
    /\ tls_frees = 0
    /\ tls_last = NoTLSCall
    /\ program_id = 0
    /\ ideal_core = DefaultIdealCore
    /\ is_64bit_process = FALSE
    /\ address_space_type = DefaultAddressSpaceType
    /\ handle_table = <<>>
    /\ handle_table_size = FreshProcess.handle_table_size
    /\ code_memory_size = FreshProcess.code_memory_size
    /\ heap_size = FreshProcess.heap_size
    /\ process_id = FreshProcess.process_id
    /\ random_entropy = FreshProcess.random_entropy
    /\ kernel_core = FreshProcess.kernel_core
    /\ rng_seed = FreshProcess.rng_seed
    /\ sys = FreshProcess.sys
    /\ broker = FreshBroker
    /\ broker_log = NoBrokerLog

\* the current thread of core c makes a supervisor call
EnterKernel(c) ==
    /\ Alive
    /\ At(c, "guest")
    /\ threads[c].status = "Running"
    /\ CanEnter(c)
    /\ hle_lock' = c
    /\ \/ Goto(c, "wait_check")
       \/ Goto(c, "clear")
       \/ /\ Len(status_log) <= MaxStatusChanges
          /\ \E new_status \in NewStatuses :
                cores' = [cores EXCEPT ![c].pc = "change_check",
                                       ![c].new_status = new_status]
    /\ UNCHANGED <<status, is_signaled, waiting_threads, threads,
                   main_thread_stack_size, vm_map, fatal, status_log, last,
                   signal_pending, tls_vars, load_vars>>

LeaveKernel(c) ==
    /\ Alive
    /\ At(c, "leave")
    /\ hle_lock' = IF hle_lock = c THEN 0 ELSE hle_lock
    /\ cores' = [cores EXCEPT ![c] = IdleCore]
    /\ UNCHANGED <<status, is_signaled, waiting_threads, threads,
                   main_thread_stack_size, vm_map, fatal, status_log, last,
                   signal_pending, tls_vars, load_vars>>

\* waiter path: the check
WaitCheck(c) ==
    /\ Alive
    /\ At(c, "wait_check")
    /\ cores' = [cores EXCEPT ![c].pc = "wait_block",
                              ![c].should_wait = ShouldWait(Kernel, c)]
    /\ UNCHANGED <<status, is_signaled, waiting_threads, threads,
                   main_thread_stack_size, vm_map, fatal, status_log, last,
                   signal_pending, hle_lock, tls_vars, load_vars>>

\* waiter path: the thread blocks on the process, or acquires it
WaitBlock(c) ==
    /\ Alive
    /\ At(c, "wait_block")
    /\ IF cores[c].should_wait
       THEN Commit([Kernel EXCEPT !.waiting = @ \cup {c},
                                  !.threads[c].status = "WaitSynch"])
       ELSE Commit(Acquire(Kernel, c))
    /\ Goto(c, "leave")
    /\ UNCHANGED <<last, signal_pending, hle_lock, tls_vars>>

\* mutant: the comparison with the current status is missing
ChangeCheck_NoGuard(c) ==
    /\ Alive
    /\ At(c, "change_check")
    /\ Commit(SetStatus(Kernel, cores[c].new_status))
    /\ Goto(c, "change_signal")
    /\ UNCHANGED <<last, signal_pending, hle_lock, tls_vars>>

\* ChangeStatus: if (status == new_status) return; status = new_status;
ChangeCheck(c) ==
    /\ Alive
    /\ At(c, "change_check")
    /\ IF status = cores[c].new_status
       THEN Commit(Kernel) /\ Goto(c, "leave")
       ELSE Commit(SetStatus(Kernel, cores[c].new_status)) /\ Goto(c, "change_signal")
    /\ UNCHANGED <<last, signal_pending, hle_lock, tls_vars>>

\* ChangeStatus: is_signaled = true;
ChangeSignal(c) ==
    /\ Alive
    /\ At(c, "change_signal")
    /\ Commit(SetSignaled(Kernel))
    /\ Goto(c, "change_wake")
    /\ UNCHANGED <<last, signal_pending, hle_lock, tls_vars>>

\* ChangeStatus: WakeupAllWaitingThreads();
ChangeWake(c) ==
    /\ Alive
    /\ At(c, "change_wake")
    /\ Commit(WakeupAllWaitingThreads(Kernel))
    /\ Goto(c, "leave")
    /\ UNCHANGED <<last, signal_pending, hle_lock, tls_vars>>

ClearStep(c) ==
    /\ Alive
    /\ At(c, "clear")
    /\ Commit(ClearSignalState(Kernel).k)
    /\ Goto(c, "leave")
    /\ UNCHANGED <<last, signal_pending, hle_lock, tls_vars>>

\* the scheduler of core c runs its woken thread again
Reschedule(c) ==
    /\ Alive
    /\ At(c, "guest")
    /\ threads[c].status = "Ready"
    /\ threads' = [threads EXCEPT ![c].status = "Running"]
    /\ UNCHANGED <<status, is_signaled, waiting_threads, main_thread_stack_size,
                   vm_map, fatal, status_log, last, signal_pending, hle_lock, cores,
                   tls_vars, load_vars>>

NextWait ==
    \E c \in Cores :
        \/ EnterKernel(c)
        \/ LeaveKernel(c)
        \/ WaitCheck(c)
        \/ WaitBlock(c)
        \/ ChangeCheck(c)
        \/ ChangeSignal(c)
        \/ ChangeWake(c)
        \/ ClearStep(c)
        \/ Reschedule(c)

SpecWait == InitWait /\ [][NextWait]_vars

(***************************************************************************)
(* Process status and signal: claims.                                      *)
(***************************************************************************)
Range(seq) == {seq[i] : i \in 1..Len(seq)}
StatusChangingCalls == {"Run", "PrepareForTermination"}

\* C1: for every sequence of Run and PrepareForTermination calls after Create
\* the statuses the process goes through are a prefix of Created, Running,
\* Exiting, Exited: never backwards, none skipped, none taken twice.
C1_StatusOnlyMovesForward ==
    /\ Len(status_log) <= Len(ProcessStatus)
    /\ \A i \in 1..Len(status_log) : status_log[i] = ProcessStatus[i]

\* C2: a call that changed the status leaves is_signaled true and every thread
\* that was waiting on the process when it was called awake (ready, off the
\* waiting list); so all N waiters of a process are awake and see the signal
\* once PrepareForTermination has returned with the process Exited.
C2_StatusChangeBroadcasts ==
    (last.op \in StatusChangingCalls /\ Len(status_log) > last.log_len) =>
        /\ is_signaled
        /\ waiting_threads = {}
        /\ \A t \in last.waiting : threads[t].status = "Ready"

C2_Witness ==
    /\ last.op = "PrepareForTermination"
    /\ fatal = "none"
    /\ status = "Exited"
    /\ Cardinality(last.waiting) >= 2
    /\ \A t \in last.waiting : threads[t].status = "Ready"

\* C3: the check-then-block path of a waiter and the flag-flip-then-wake path
\* of ChangeStatus exclude each other (at most one core is inside a handler),
\* so no thread is left blocked on a process whose is_signaled is true: when
\* is_signaled is true and no core is about to wake the waiters, nobody waits.
C3_NoLostWakeup ==
    /\ \A c1, c2 \in Cores : InHandler(c1) /\ InHandler(c2) => c1 = c2
    /\ (is_signaled /\ \A c \in Cores : ~At(c, "change_wake")) => waiting_threads = {}

\* a thread that had blocked on the process was woken by the ChangeStatus
\* another core is just leaving
C3_Witness ==
    /\ \E c \in Cores : threads[c].status = "Ready" /\ At(c, "guest")
    /\ \E c \in Cores : At(c, "leave") /\ Len(status_log) > 1 /\ hle_lock = c
    /\ is_signaled
    /\ waiting_threads = {}

\* C4: ClearSignalState returns invalid-state when the status is Exited and
\* when is_signaled is false, and then changes neither; otherwise it clears
\* is_signaled, keeps the status and returns success.
C4_ClearSignalState ==
    last.op = "ClearSignalState" =>
        /\ status = last.status
        /\ IF last.status = "Exited" \/ ~last.is_signaled
           THEN last.result = ERR_INVALID_STATE /\ is_signaled = last.is_signaled
           ELSE last.result = RESULT_SUCCESS /\ ~is_signaled

C4_Witness ==
    /\ last.op = "ClearSignalState"
    /\ last.status = "Exited"
    /\ last.is_signaled
    /\ last.result = ERR_INVALID_STATE
    /\ is_signaled

\* C5: once the process has been Exited, is_signaled is true in every later
\* state and every ClearSignalState call is rejected with invalid-state,
\* whatever is called afterwards.
C5_ExitedIsPermanentlySignaled ==
    "Exited" \in Range(status_log) =>
        /\ is_signaled
        /\ last.op = "ClearSignalState" => last.result = ERR_INVALID_STATE

\* C6: is_signaled is true exactly when a status change has happened since
\* Create or since the last successful ClearSignalState; a freshly created
\* process is unsignaled and ClearSignalState on it fails with invalid-state.
C6_SignaledIffPendingChange ==
    /\ is_signaled <=> signal_pending
    /\ Len(status_log) = 1 =>
          /\ ~is_signaled
          /\ last.op = "ClearSignalState" => last.result = ERR_INVALID_STATE

C6_Witness ==
    /\ Len(status_log) = 1
    /\ last.op = "ClearSignalState"
    /\ last.result = ERR_INVALID_STATE
    /\ ~is_signaled

\* C7: ShouldWait answers "not is_signaled" to every thread; Acquire is a
\* fatal assertion when ShouldWait is true and otherwise changes neither
\* is_signaled nor the status, so the signal is not consumed.
C7_ShouldWaitAcquire ==
    /\ last.op = "ShouldWait" => last.result = ~last.is_signaled
    /\ last.op = "Acquire" =>
          /\ (fatal = "Acquire") <=> ~last.is_signaled
          /\ status = last.status
          /\ is_signaled = last.is_signaled

C7_Witness ==
    /\ last.op = "Acquire"
    /\ last.thread >= 2
    /\ last.is_signaled
    /\ is_signaled
    /\ fatal = "none"

(***************************************************************************)
(* SpecTLS: the TLS allocator of one process, driven by the thread         *)
(* creation and thread exit paths.                                         *)
(***************************************************************************)
\* (page, slot) pairs in allocation order
Before(p1, s1, p2, s2) == p1 < p2 \/ (p1 = p2 /\ s1 < s2)

\* a slot of an allocated page of `slots` below (page, slot) is clear
LowerClear(slots, page, slot) ==
    \E p \in 0..(Len(slots) - 1) : \E sl \in Slots :
        Before(p, sl, page, slot) /\ sl \notin slots[p + 1]

MarkCall ==
    /\ Alive
    /\ LET r == MarkNextAvailableTLSSlotAsUsed(tls_slots, vm_map) IN
          /\ Len(r.slots) <= MaxPages
          /\ tls_slots' = r.slots
          /\ vm_map' = r.vm
          /\ tls_assigned' = tls_assigned \cup {r.addr}
          /\ tls_last' = TLSCall("Mark", r.addr, r.page, r.slot, r.needs_allocation,
                                 IF tls_last.op = "Free" THEN {tls_last.addr} ELSE {},
                                 tls_last.op = "Free" /\ tls_last.lower_free)
    /\ UNCHANGED <<status, is_signaled, waiting_threads, threads,
                   main_thread_stack_size, fatal, status_log, last,
                   signal_pending, wait_vars, tls_frees, load_vars>>

FreeCall ==
    /\ Alive
    /\ tls_frees < MaxFrees
    /\ \E tls_address \in tls_assigned :
          /\ tls_slots' = FreeTLSSlot(tls_slots, tls_address)
          /\ tls_assigned' = tls_assigned \ {tls_address}
          /\ tls_last' = TLSCall("Free", tls_address, TLSPageOf(tls_address),
                                 TLSSlotOf(tls_address), FALSE, {},
                                 LowerClear(tls_slots, TLSPageOf(tls_address),
                                            TLSSlotOf(tls_address)))
    /\ tls_frees' = tls_frees + 1
    /\ UNCHANGED <<status, is_signaled, waiting_threads, threads,
                   main_thread_stack_size, vm_map, fatal, status_log, last,
                   signal_pending, wait_vars, load_vars>>

NextTLS == MarkCall \/ FreeCall

SpecTLS == Init /\ [][NextTLS]_vars

(***************************************************************************)
(* TLS slots: claims.                                                      *)
(***************************************************************************)
RECURSIVE SetBits(_, _)
SetBits(slots, n) == IF n = 0 THEN 0 ELSE Cardinality(slots[n]) + SetBits(slots, n - 1)
UsedSlots == SetBits(tls_slots, Len(tls_slots))

\* C8: MarkNextAvailableTLSSlotAsUsed assigns the clear slot that is smallest
\* in (page, slot) order over the allocated pages (slot 0 of a new page when
\* there is none); with no frees the K-th allocation gets page (K-1) div S,
\* slot (K-1) mod S.
C8_FirstFit ==
    /\ tls_last.op = "Mark" =>
          /\ ~LowerClear(tls_last.before, tls_last.page, tls_last.slot)
          /\ tls_last.page < Len(tls_last.before) =>
                tls_last.slot \notin tls_last.before[tls_last.page + 1]
          /\ tls_last.page <= Len(tls_last.before)
          /\ tls_last.slot \in tls_slots[tls_last.page + 1]
          /\ tls_last.addr = TLSAddress(tls_last.page, tls_last.slot)
    /\ (tls_last.op = "Mark" /\ tls_frees = 0) =>
          /\ tls_last.page = (UsedSlots - 1) \div SlotsPerPage
          /\ tls_last.slot = (UsedSlots - 1) % SlotsPerPage
          /\ \A p \in 0..(Len(tls_slots) - 1) : \A sl \in Slots :
                sl \in tls_slots[p + 1] <=> p * SlotsPerPage + sl < UsedSlots

\* an allocation that reused a freed slot of page 0 while page 1 had clear slots
C8_Witness ==
    /\ tls_last.op = "Mark"
    /\ tls_frees > 0
    /\ Len(tls_slots) = 2
    /\ tls_last.page = 0
    /\ tls_last.slot > 0
    /\ tls_slots[2] # Slots

\* C9 as claimed: FreeTLSSlot(a) immediately followed by
\* MarkNextAvailableTLSSlotAsUsed returns a, in any allocator state.
C9_FreeThenMarkReturnsSame ==
    (tls_last.op = "Mark" /\ tls_last.freed # {}) =>
        tls_last.addr \in tls_last.freed

\* C9 amended: FreeTLSSlot(a) immediately followed by
\* MarkNextAvailableTLSSlotAsUsed returns a exactly when no slot below a in
\* (page, slot) order was clear when a was freed; otherwise it returns the
\* address of a lower slot.
C9_FreeThenMarkFirstFit ==
    (tls_last.op = "Mark" /\ tls_last.freed # {}) =>
        /\ ~tls_last.needs_allocation
        /\ \A a \in tls_last.freed : tls_last.addr <= a
        /\ tls_last.addr \in tls_last.freed <=> ~tls_last.lower_free

C9_Witness ==
    /\ tls_last.op = "Mark"
    /\ tls_last.addr \in tls_last.freed
    /\ tls_last.page = 0
    /\ tls_last.slot = 3
    /\ Len(tls_slots) = 2

\* C10: a page is appended only by an allocation that found every existing
\* page full (or no page), and that allocation returns slot 0 of the new last
\* page; after S allocations without frees the next one creates page 1 and
\* returns page 1 / slot 0.
C10_NewPageOnlyWhenFull ==
    /\ Len(tls_slots) >= Len(tls_last.before)
    /\ Len(tls_slots) > Len(tls_last.before) =>
          /\ tls_last.op = "Mark"
          /\ tls_last.needs_allocation
          /\ \A p \in 1..Len(tls_last.before) : tls_last.before[p] = Slots
          /\ Len(tls_slots) = Len(tls_last.before) + 1
          /\ tls_last.page = Len(tls_slots) - 1
          /\ tls_last.slot = 0
          /\ tls_slots[Len(tls_slots)] = {0}
    /\ (tls_last.op = "Mark" /\ tls_frees = 0 /\ UsedSlots = SlotsPerPage + 1) =>
          /\ Len(tls_last.before) = 1
          /\ Len(tls_slots) = 2
          /\ tls_last.page = 1
          /\ tls_last.slot = 0

C10_Witness ==
    /\ tls_last.op = "Mark"
    /\ tls_last.needs_allocation
    /\ tls_frees = 0
    /\ UsedSlots = SlotsPerPage + 1
    /\ tls_last.page = 1
    /\ tls_last.slot = 0

(***************************************************************************)
(* SpecRun: the loader's host thread creates the process, may load program *)
(* metadata into it and runs it, Run statement by statement; the thread    *)
(* creation and exit paths allocate and free TLS slots meanwhile.          *)
(***************************************************************************)
\* the host thread System::Load runs on; cores[LoaderThread] is its position
LoaderThread == 1

\* the metadata the loader hands to LoadFromMetadata
Metadatas ==
    [title_id : {1}, main_thread_core : {0, 2}, is_64bit : BOOLEAN,
     address_space_type : {"Is32Bit", "Is39Bit"}, capabilities_valid : BOOLEAN,
     handle_table_size : {2, MAX_COUNT + 1}]

\* the priorities and stack sizes the loader hands to Run: the sizes around
\* one page, none, the whole TLS/IO region, and the largest unsigned value
MainThreadPriorities == {1, THREADPRIO_DEFAULT}
StackRequests ==
    StackSizes \cup {0, TLSIORegionEndAddress - TLSIORegionBaseAddress,
                     WordModulus - 1}

RunArgs == [NoArgs EXCEPT !.priority = cores[LoaderThread].priority,
                          !.stack_size = cores[LoaderThread].stack_size]

InitRun ==
    /\ status = "Created"
    /\ is_signaled = FALSE
    /\ waiting_threads = {}
    /\ threads = <<>>
    /\ main_thread_stack_size = 0
    /\ vm_map = {}
    /\ fatal = "none"
    /\ status_log = <<"Created">>
    /\ last = Call("Create", NoThread, RESULT_SUCCESS)
    /\ signal_pending = FALSE
    /\ hle_lock = 0
    /\ cores = <<IdleCore>>
    /\ tls_slots = <<>>
    /\ tls_assigned = {}
    /\ tls_frees = 0
    /\ tls_last = NoTLSCall
    /\ program_id = 0
    /\ ideal_core = DefaultIdealCore
    /\ is_64bit_process = FALSE
    /\ address_space_type = DefaultAddressSpaceType
    /\ handle_table = <<>>
    /\ handle_table_size = FreshProcess.handle_table_size
    /\ code_memory_size = FreshProcess.code_memory_size
    /\ heap_size = FreshProcess.heap_size
    /\ process_id = FreshProcess.process_id
    /\ random_entropy = FreshProcess.random_entropy
    /\ kernel_core = FreshProcess.kernel_core
    /\ rng_seed = FreshProcess.rng_seed
    /\ sys = FreshProcess.sys
    /\ broker = FreshBroker
    /\ broker_log = NoBrokerLog

\* the loader calls LoadFromMetadata on the process it has just created
LoadFromMetadataCall ==
    /\ Alive
    /\ At(LoaderThread, "guest")
    /\ status = "Created"
    /\ tls_slots = <<>>
    /\ \E metadata \in Metadatas :
          LET r == LoadFromMetadata(Kernel, metadata) IN
          /\ Commit(r.k)
          /\ RecordArgs("LoadFromMetadata", NoThread, r.result,
                        [NoArgs EXCEPT !.metadata = metadata])
    /\ UNCHANGED <<wait_vars, tls_vars>>

\* the loader calls Run on the process it has created;
\* main_thread_stack_size = AlignUp(stack_size, PAGE_SIZE)
RunBegin ==
    /\ Alive
    /\ At(LoaderThread, "guest")
    /\ status = "Created"
    /\ \E main_thread_priority \in MainThreadPriorities :
       \E stack_size \in StackRequests :
          /\ Commit(RunAlign(Kernel, stack_size))
          /\ cores' = [cores EXCEPT ![LoaderThread].pc = "run_map",
                                    ![LoaderThread].priority = main_thread_priority,
                                    ![LoaderThread].stack_size = stack_size]
          /\ RecordArgs("Run", NoThread, RESULT_SUCCESS,
                        [NoArgs EXCEPT !.priority = main_thread_priority,
                                       !.stack_size = stack_size])
    /\ UNCHANGED <<hle_lock, tls_vars>>

\* Run: MapMemoryBlock(...).Unwrap()
RunMapStep ==
    /\ Alive
    /\ At(LoaderThread, "run_map")
    /\ Commit(RunMap(Kernel))
    /\ Goto(LoaderThread, "run_status")
    /\ RecordArgs("Run", NoThread, RESULT_SUCCESS, RunArgs)
    /\ UNCHANGED <<hle_lock, tls_vars>>

\* Run: ChangeStatus(ProcessStatus::Running)
RunStatusStep ==
    /\ Alive
    /\ At(LoaderThread, "run_status")
    /\ Commit(ChangeStatus(Kernel, "Running"))
    /\ Goto(LoaderThread, "run_setup")
    /\ RecordArgs("Run", NoThread, RESULT_SUCCESS, RunArgs)
    /\ UNCHANGED <<hle_lock, tls_vars>>

\* Run: SetupMainThread(*this, kernel, main_thread_priority), and Run returns
RunSetupStep ==
    /\ Alive
    /\ At(LoaderThread, "run_setup")
    /\ Commit(SetupMainThread(Kernel, cores[LoaderThread].priority))
    /\ cores' = [cores EXCEPT ![LoaderThread] = IdleCore]
    /\ RecordArgs("Run", NoThread, RESULT_SUCCESS, RunArgs)
    /\ UNCHANGED <<hle_lock, tls_vars>>

\* addresses outside every allocated page: below the region base, and the
\* first slot past the last allocated page
OutsideAddresses(slots) ==
    {TLSIORegionBaseAddress - TLS_ENTRY_SIZE, TLSAddress(Len(slots), 0)}

\* the process has run: its threads are created and exit, each allocating and
\* freeing its TLS slot
ThreadsLive == At(LoaderThread, "guest") /\ threads # <<>>

\* a thread is created: Thread::Create calls MarkNextAvailableTLSSlotAsUsed
ThreadMarkCall == ThreadsLive /\ MarkCall

\* FreeTLSSlot with an address outside every allocated page
FreeOutsideCall ==
    /\ Alive
    /\ ThreadsLive
    /\ \E tls_address \in OutsideAddresses(tls_slots) :
       \E outcome \in OutOfBoundsOutcomes :
          /\ ~InAllocatedPage(tls_slots, tls_address)
          /\ fatal' = IF outcome = "trap" THEN "FreeTLSSlot" ELSE fatal
          /\ tls_last' = TLSCall("FreeOutside", tls_address, TLSPageOf(tls_address),
                                 TLSSlotOf(tls_address), FALSE, {}, FALSE)
    /\ UNCHANGED <<status, is_signaled, waiting_threads, threads,
                   main_thread_stack_size, vm_map, status_log, last,
                   signal_pending, wait_vars, tls_slots, tls_assigned, tls_frees,
                   load_vars>>

NextRun ==
    \/ LoadFromMetadataCall
    \/ RunBegin
    \/ RunMapStep
    \/ RunStatusStep
    \/ RunSetupStep
    \/ ThreadMarkCall
    \/ FreeOutsideCall

SpecRun == InitRun /\ [][NextRun]_vars

\* the addresses of the slots whose bit is set
SetAddresses(slots) ==
    UNION {{TLSAddress(p, sl) : sl \in slots[p + 1]} : p \in 0..(Len(slots) - 1)}

\* C11: a slot's bit is set iff the slot is assigned: the addresses handed
\* out and not freed since are those of the set bits, an allocation returns
\* an address whose bit was clear (so no live allocation has it already), and
\* FreeTLSSlot leaves the bit of the freed slot clear.
C11_BitSetIffAssigned ==
    /\ tls_assigned = SetAddresses(tls_slots)
    /\ Cardinality(tls_assigned) = UsedSlots
    /\ tls_last.op = "Mark" =>
          /\ tls_last.addr \notin SetAddresses(tls_last.before)
          /\ tls_last.addr \in tls_assigned
    /\ tls_last.op = "Free" =>
          /\ tls_last.addr \in SetAddresses(tls_last.before)
          /\ tls_last.addr \notin SetAddresses(tls_slots)
          /\ tls_last.addr \notin tls_assigned

\* an address handed out, freed and handed out again while others are live
C11_Witness ==
    /\ tls_last.op = "Mark"
    /\ tls_last.addr \in tls_last.freed
    /\ tls_last.slot = 1
    /\ Cardinality(tls_assigned) >= 3
    /\ tls_assigned = SetAddresses(tls_slots)

\* C12: the number of TLS pages never decreases, and a FreeTLSSlot step
\* clears the bit of the freed slot only: every other bit, the number of
\* pages and the mappings of the address space stay, also when the page is
\* left without a set bit.
C12_FreeKeepsPages ==
    [][/\ Len(tls_slots') >= Len(tls_slots)
       /\ tls_last'.op \in {"Free", "FreeOutside"} =>
             /\ Len(tls_slots') = Len(tls_slots)
             /\ vm_map' = vm_map
             /\ \A p \in 0..(Len(tls_slots) - 1) :
                   tls_slots'[p + 1] =
                      IF tls_last'.op = "Free" /\ p = tls_last'.page
                      THEN tls_slots[p + 1] \ {tls_last'.slot}
                      ELSE tls_slots[p + 1]]_vars

\* the last page is left without a set bit by a FreeTLSSlot and stays mapped
C12_Witness ==
    /\ tls_last.op = "Free"
    /\ Len(tls_slots) = 2
    /\ tls_last.page = 1
    /\ tls_slots[2] = {}
    /\ Cardinality({r \in vm_map : r.state = "ThreadLocal"}) = 2

\* C13: FreeTLSSlot with an address outside every allocated page ends the
\* program with a fatal assertion and leaves the bitsets as they were.
C13_FreeOutsideIsFatal ==
    tls_last.op = "FreeOutside" =>
        /\ fatal = "FreeTLSSlot"
        /\ tls_slots = tls_last.before

(***************************************************************************)
(* Run and LoadFromMetadata: claims.                                       *)
(***************************************************************************)
\* Run has just mapped the main-thread stack
StackMapped == last.op = "Run" /\ At(LoaderThread, "run_status") /\ fatal = "none"

\* the region Run maps for a stack of main_thread_stack_size bytes
StackRegion ==
    [base |-> TLSIORegionEndAddress - main_thread_stack_size,
     size |-> main_thread_stack_size, state |-> "Stack"]

\* C14 as claimed: for every requested stack size r the stack Run maps has a
\* size that is a multiple of the page size, at least r and below r plus one
\* page.
C14_StackRoundedUpForAll ==
    StackMapped =>
        /\ main_thread_stack_size % PAGE_SIZE = 0
        /\ main_thread_stack_size >= last.args.stack_size
        /\ main_thread_stack_size < last.args.stack_size + PAGE_SIZE
        /\ StackRegion \in vm_map

\* C14 amended: for every requested stack size r that is at most the largest
\* unsigned value minus the page size, the stack Run maps has a size that is
\* a multiple of the page size, at least r and below r plus one page; for a
\* larger r the round-up wraps around and the size is 0.
C14_StackRoundedUp ==
    StackMapped =>
        /\ main_thread_stack_size % PAGE_SIZE = 0
        /\ StackRegion \in vm_map
        /\ IF last.args.stack_size <= WordModulus - PAGE_SIZE
           THEN /\ main_thread_stack_size >= last.args.stack_size
                /\ main_thread_stack_size < last.args.stack_size + PAGE_SIZE
           ELSE main_thread_stack_size = 0

C14_Witness ==
    /\ StackMapped
    /\ last.args.stack_size = PAGE_SIZE + 1
    /\ main_thread_stack_size = 2 * PAGE_SIZE
    /\ StackRegion \in vm_map

\* the page of a TLS slot that has been handed out
TLSPageRegion(page) ==
    [base |-> TLSIORegionBaseAddress + page * PAGE_SIZE, size |-> PAGE_SIZE,
     state |-> "ThreadLocal"]

\* C15: the mapped regions of the address space are pairwise disjoint, and a
\* TLS slot is handed out only in a page that is mapped as a TLS page: an
\* allocation whose new page intersects a mapping hands out no slot in it.
C15_MappingsDisjoint ==
    /\ \A r1, r2 \in vm_map : r1 # r2 => ~Overlaps(r1, r2.base, r2.size)
    /\ \A a \in tls_assigned : TLSPageRegion(TLSPageOf(a)) \in vm_map

\* C16: when Run has returned on a created process, the status is Running,
\* the process has exactly one thread, register 1 of that thread is the
\* non-zero handle under which the handle table holds that thread, and the
\* thread is ready; the main thread is created with the status Running.
C16_RunCreatesMainThread ==
    /\ (last.op = "Run" /\ At(LoaderThread, "guest")) =>
          /\ status = "Running"
          /\ Len(threads) = 1
          /\ threads[1].owner = "P"
          /\ threads[1].priority = last.args.priority
          /\ threads[1].reg1 # 0
          /\ threads[1].reg1 \in 1..Len(handle_table)
          /\ handle_table[threads[1].reg1] = 1
          /\ threads[1].status = "Ready"
    /\ At(LoaderThread, "run_setup") => status = "Running" /\ threads = <<>>
    /\ threads # <<>> => status_log = <<"Created", "Running">>

C16_Witness ==
    /\ last.op = "Run"
    /\ At(LoaderThread, "guest")
    /\ last.args.priority = 1
    /\ last.args.stack_size = PAGE_SIZE
    /\ Len(threads) = 1
    /\ threads[1].reg1 = 1
    /\ status = "Running"

\* C17: a LoadFromMetadata(m) that succeeds leaves the address-space type,
\* the program ID and the bitness of m, and the ideal core of m; nothing but
\* LoadFromMetadata changes them; and Run creates the main thread with the
\* ideal core of the process, which is that of m, or the default one when no
\* metadata was loaded (the program ID is then still 0).
C17_MetadataApplied ==
    [][/\ (last'.op = "LoadFromMetadata" /\ last'.result = RESULT_SUCCESS) =>
             /\ address_space_type' = last'.args.metadata.address_space_type
             /\ program_id' = last'.args.metadata.title_id
             /\ is_64bit_process' = last'.args.metadata.is_64bit
             /\ ideal_core' = last'.args.metadata.main_thread_core
       /\ last'.op # "LoadFromMetadata" =>
             UNCHANGED <<program_id, ideal_core, is_64bit_process, address_space_type>>
       /\ Len(threads') > Len(threads) =>
             /\ threads'[Len(threads')].ideal_core = ideal_core
             /\ program_id = 0 => ideal_core = DefaultIdealCore]_vars

C17_Witness ==
    /\ last.op = "Run"
    /\ At(LoaderThread, "guest")
    /\ program_id = 1
    /\ is_64bit_process
    /\ address_space_type = "Is39Bit"
    /\ ideal_core = 2
    /\ threads[1].ideal_core = 2

(***************************************************************************)
(* PrepareForTermination: claims on the handler as one step (Spec).        *)
(***************************************************************************)
\* the threads of the process other than the calling core's current thread
OtherThreads(current) ==
    {t \in ThreadIds : threads[t].owner = "P" /\ t # current}

\* thread t is not stopped by the step
NotStopped(t) == threads'[t].status = "Dead" => threads[t].status = "Dead"

\* C18: a PrepareForTermination called while every other thread of the
\* process is in the wait-for-synchronization state sets the status to
\* Exiting, stops every other thread of the process, then sets the status
\* to Exited; the threads of other processes and the caller's current thread
\* are not stopped.
C18_TerminationSweep ==
    [][(/\ last'.op = "PrepareForTermination"
        /\ \A t \in OtherThreads(last'.thread) : threads[t].status = "WaitSynch") =>
          /\ fatal' = "none"
          /\ status' = "Exited"
          /\ status_log' = status_log \o (IF status = "Exiting" THEN <<"Exited">>
                                          ELSE <<"Exiting", "Exited">>)
          /\ \A t \in OtherThreads(last'.thread) : threads'[t].status = "Dead"
          /\ \A t \in ThreadIds \ OtherThreads(last'.thread) : NotStopped(t)]_vars

\* C19: a PrepareForTermination that meets a thread of the process, other
\* than the caller's current thread, that is not in the
\* wait-for-synchronization state ends in the fatal assertion with the
\* status Exiting: the threads before that one are stopped, that thread and
\* the threads after it are not, and Exited is not reached.
C19_SweepAssertion ==
    [][last'.op = "PrepareForTermination" =>
          LET others == OtherThreads(last'.thread) IN
          /\ fatal' \in {"none", "PrepareForTermination"}
          /\ (\E t \in others : threads[t].status # "WaitSynch") =>
                fatal' = "PrepareForTermination"
          /\ fatal' = "PrepareForTermination" =>
                /\ status' = "Exiting"
                /\ status_log'[Len(status_log')] = "Exiting"
                /\ \E t \in others :
                      /\ threads'[t].status # "WaitSynch"
                      /\ NotStopped(t)
                      /\ \A u \in others : u < t => threads'[u].status = "Dead"
                      /\ \A u \in ThreadIds : u > t => NotStopped(u)]_vars

\* the sweep stopped thread 1, then met thread 2 running
C19_Witness ==
    /\ last.op = "PrepareForTermination"
    /\ fatal = "PrepareForTermination"
    /\ status = "Exiting"
    /\ Len(threads) = 3
    /\ last.thread = 3
    /\ \A t \in ThreadIds : threads[t].owner = "P"
    /\ threads[1].status = "Dead"
    /\ threads[2].status = "Running"

(***************************************************************************)
(* SpecSweep: PrepareForTermination cut into its statements, one host      *)
(* thread per core under the kernel-global lock.  Thread c is the current  *)
(* thread of core c; thread 1 is the main thread of the process.  A thread *)
(* blocks on an object other than the process, and the timeout of its wait *)
(* wakes it on its own core.                                               *)
(***************************************************************************)
\* the process has run, and every core runs a thread: core 1 the main thread,
\* core c a thread of the process owners[c]
RunningProcess(owners) ==
    LET k == Run(FreshProcess, THREADPRIO_DEFAULT, PAGE_SIZE) IN
    [k EXCEPT !.threads =
        [c \in Cores |->
            [(IF c = 1 THEN k.threads[1]
              ELSE NewThread(owners[c], GuestEntryPoint, THREADPRIO_DEFAULT,
                             DefaultIdealCore, GuestStackTop))
             EXCEPT !.status = "Running"]]]

InitSweep ==
    \E owners \in [Cores -> {"P", "Q"}] :
        LET k == RunningProcess(owners) IN
        /\ owners[1] = "P"
        /\ status = k.status
        /\ is_signaled = k.is_signaled
        /\ waiting_threads = k.waiting
        /\ threads = k.threads
        /\ main_thread_stack_size = k.stack_size
        /\ vm_map = k.vm
        /\ fatal = k.fatal
        /\ status_log = k.log
        /\ last = NoCall
        /\ signal_pending = TRUE
        /\ hle_lock = 0
        /\ cores = [c \in Cores |-> IdleCore]
        /\ tls_slots = <<>>
        /\ tls_assigned = {}
        /\ tls_frees = 0
        /\ tls_last = NoTLSCall
        /\ program_id = k.program_id
        /\ ideal_core = k.ideal_core
        /\ is_64bit_process = k.is_64bit
        /\ address_space_type = k.address_space_type
        /\ handle_table = k.handles
        /\ handle_table_size = k.handle_table_size
        /\ code_memory_size = k.code_memory_size
        /\ heap_size = k.heap_size
        /\ process_id = k.process_id
        /\ random_entropy = k.random_entropy
        /\ kernel_core = k.kernel_core
        /\ rng_seed = k.rng_seed
        /\ sys = k.sys
        /\ broker = FreshBroker
        /\ broker_log = NoBrokerLog

\* the current thread of core c makes a supervisor call: it terminates the
\* process, or it waits on another object
SweepEnter(c) ==
    /\ Alive
    /\ At(c, "guest")
    /\ threads[c].status = "Running"
    /\ CanEnter(c)
    /\ hle_lock' = c
    /\ \/ Len(status_log) + 1 <= MaxStatusChanges /\ Goto(c, "pft_exiting")
       \/ Goto(c, "wait_other")
    /\ UNCHANGED <<status, is_signaled, waiting_threads, threads,
                   main_thread_stack_size, vm_map, fatal, status_log, last,
                   signal_pending, tls_vars, load_vars>>

\* the wait of the thread of core c times out: the core's host thread runs
\* the wake-up callback
TimerEnter(c) ==
    /\ Alive
    /\ At(c, "guest")
    /\ threads[c].status = "WaitSynch"
    /\ CanEnter(c)
    /\ hle_lock' = c
    /\ Goto(c, "timeout")
    /\ UNCHANGED <<status, is_signaled, waiting_threads, threads,
                   main_thread_stack_size, vm_map, fatal, status_log, last,
                   signal_pending, tls_vars, load_vars>>

\* PrepareForTermination: ChangeStatus(ProcessStatus::Exiting)
PftExiting(c) ==
    /\ Alive
    /\ At(c, "pft_exiting")
    /\ Commit(ChangeStatus(Kernel, "Exiting"))
    /\ cores' = [cores EXCEPT ![c].pc = "pft_check", ![c].i = 1]
    /\ Record("PrepareForTermination", c, RESULT_SUCCESS)
    /\ UNCHANGED <<hle_lock, tls_vars>>

\* stop_threads: the loop head, the two continues and the assertion
PftCheck(c) ==
    /\ Alive
    /\ At(c, "pft_check")
    /\ LET i == cores[c].i IN
       IF i > Len(threads) THEN Commit(Kernel) /\ Goto(c, "pft_exited")
       ELSE IF SweepSkips(Kernel, c, i)
            THEN Commit(Kernel) /\ cores' = [cores EXCEPT ![c].i = i + 1]
       ELSE IF ~SweepFindsWaiting(Kernel, i)
            THEN /\ Commit([Kernel EXCEPT !.fatal = "PrepareForTermination"])
                 /\ UNCHANGED cores
       ELSE Commit(Kernel) /\ Goto(c, "pft_stop")
    /\ UNCHANGED <<last, signal_pending, hle_lock, tls_vars>>

\* stop_threads: thread->Stop()
PftStop(c) ==
    /\ Alive
    /\ At(c, "pft_stop")
    /\ Commit(ThreadStop(Kernel, cores[c].i))
    /\ cores' = [cores EXCEPT ![c].pc = "pft_check", ![c].i = @ + 1]
    /\ UNCHANGED <<last, signal_pending, hle_lock, tls_vars>>

\* PrepareForTermination: ChangeStatus(ProcessStatus::Exited)
PftExited(c) ==
    /\ Alive
    /\ At(c, "pft_exited")
    /\ Commit(ChangeStatus(Kernel, "Exited"))
    /\ Goto(c, "leave")
    /\ Record("PrepareForTermination", c, RESULT_SUCCESS)
    /\ UNCHANGED <<hle_lock, tls_vars>>

\* the thread of core c blocks on an object other than the process
WaitOtherStep(c) ==
    /\ Alive
    /\ At(c, "wait_other")
    /\ Commit([Kernel EXCEPT !.threads[c].status = "WaitSynch"])
    /\ Goto(c, "leave")
    /\ UNCHANGED <<last, signal_pending, hle_lock, tls_vars>>

\* the wake-up callback resumes the thread if it still waits
TimeoutWake(c) ==
    /\ Alive
    /\ At(c, "timeout")
    /\ IF threads[c].status = "WaitSynch"
       THEN Commit(ResumeFromWait(Kernel, c))
       ELSE Commit(Kernel)
    /\ Goto(c, "leave")
    /\ UNCHANGED <<last, signal_pending, hle_lock, tls_vars>>

NextSweep ==
    \E c \in Cores :
        \/ SweepEnter(c)
        \/ TimerEnter(c)
        \/ LeaveKernel(c)
        \/ PftExiting(c)
        \/ PftCheck(c)
        \/ PftStop(c)
        \/ PftExited(c)
        \/ WaitOtherStep(c)
        \/ TimeoutWake(c)
        \/ Reschedule(c)

SpecSweep == InitSweep /\ [][NextSweep]_vars

\* C20: the sweep excludes the other cores: at most one core is inside a
\* handler, the thread the sweep is about to stop is still in the
\* wait-for-synchronization state it was checked in, and while the process
\* is Exited no thread of it other than the caller's current thread is
\* running or ready.
C20_SweepExcludesOtherCores ==
    /\ \A c1, c2 \in Cores : InHandler(c1) /\ InHandler(c2) => c1 = c2
    /\ \A c \in Cores :
          At(c, "pft_stop") => threads[cores[c].i].status = "WaitSynch"
    /\ status = "Exited" =>
          \A t \in ThreadIds :
              (threads[t].owner = "P" /\ t # last.thread) =>
                  threads[t].status \notin {"Running", "Ready"}

\* core 1 has terminated the process and stopped the thread of core 2
C20_Witness ==
    /\ status = "Exited"
    /\ last.op = "PrepareForTermination"
    /\ last.thread = 1
    /\ At(1, "leave")
    /\ threads[1].status = "Running"
    /\ threads[2].owner = "P"
    /\ threads[2].status = "Dead"

(***************************************************************************)
(* LoadFromMetadata, Create, LoadModule: claims.                           *)
(***************************************************************************)
\* C21: a LoadFromMetadata whose capability initialisation fails returns that
\* error and leaves the size of the handle table as it was; one whose
\* capability initialisation succeeds sizes the handle table to the size the
\* capability set declares and returns the result of the resize: success
\* with the new size, or the error of a refused resize with the size kept.
C21_CapabilityErrorPropagates ==
    [][last'.op = "LoadFromMetadata" =>
          LET m == last'.args.metadata IN
          /\ ~m.capabilities_valid =>
                /\ last'.result = ERR_INVALID_CAPABILITY
                /\ handle_table_size' = handle_table_size
          /\ (m.capabilities_valid /\ m.handle_table_size <= MAX_COUNT) =>
                /\ last'.result = RESULT_SUCCESS
                /\ handle_table_size' = m.handle_table_size
          /\ (m.capabilities_valid /\ m.handle_table_size > MAX_COUNT) =>
                /\ last'.result = ERR_OUT_OF_MEMORY
                /\ handle_table_size' = handle_table_size]_vars

\* a table sized by an earlier load keeps its size through a load that fails
\* on its capabilities
C21_Witness ==
    /\ last.op = "LoadFromMetadata"
    /\ last.result = ERR_INVALID_CAPABILITY
    /\ last.args.metadata.handle_table_size = MAX_COUNT + 1
    /\ handle_table_size = 2

\* C30: a LoadFromMetadata that returns the capability-initialisation error
\* has overwritten the program ID, the ideal core and the bitness from the
\* metadata and has reset the address space to the metadata's type, dropping
\* its mappings; the size of the handle table is as it was.
C30_LoadNotAtomic ==
    [][(last'.op = "LoadFromMetadata" /\ last'.result = ERR_INVALID_CAPABILITY) =>
          LET m == last'.args.metadata IN
          /\ program_id' = m.title_id
          /\ ideal_core' = m.main_thread_core
          /\ is_64bit_process' = m.is_64bit
          /\ address_space_type' = m.address_space_type
          /\ vm_map' = {}
          /\ handle_table_size' = handle_table_size]_vars

\* the first load into a process fails on its capabilities and leaves the
\* metadata's values in the process, the handle table at its default size
C30_Witness ==
    /\ last.op = "LoadFromMetadata"
    /\ last.result = ERR_INVALID_CAPABILITY
    /\ program_id = 1
    /\ ideal_core = 2
    /\ is_64bit_process
    /\ address_space_type = "Is32Bit"
    /\ handle_table_size = MAX_COUNT
    /\ last.args.metadata.handle_table_size = 2

(***************************************************************************)
(* SpecSys: an emulation session.  The frontend configures the seed, loads *)
(* a program (System::Load, one step) and shuts the system down; while the *)
(* session runs, further processes are created, and the main process is    *)
(* called by the guest: modules are loaded into it, its heap is sized, its *)
(* threads take and free TLS slots, its signal is cleared, it terminates.  *)
(***************************************************************************)
\* the seeds the configuration holds
Seeds == {NoSeed, Seed(5)}

\* the code set of a program image: three segments of one page each
CodeSets ==
    {[memory |-> 3 * PAGE_SIZE,
      code |-> [addr |-> 0, size |-> PAGE_SIZE],
      rodata |-> [addr |-> PAGE_SIZE, size |-> PAGE_SIZE],
      data |-> [addr |-> 2 * PAGE_SIZE, size |-> PAGE_SIZE]]}

\* where a module is loaded after the main one
ModuleBases == {CodeRegionBaseAddress + 3 * PAGE_SIZE}

\* the program images the loader is given: unreadable, with capabilities the
\* kernel refuses, or loadable
Images ==
    {image \in
        [readable : BOOLEAN,
         metadata : {[NoMetadata EXCEPT !.title_id = 1, !.main_thread_core = 2,
                                        !.handle_table_size = 2,
                                        !.capabilities_valid = v] : v \in BOOLEAN},
         module_ : CodeSets,
         main_thread_priority : {THREADPRIO_DEFAULT},
         main_thread_stack_size : {PAGE_SIZE + 1}] :
        image.readable \/ image.metadata.capabilities_valid}

\* the heap sizes the guest asks for
HeapSizes == {0, 2 * PAGE_SIZE}

\* a main process exists and its session runs
ProcessLive == process_id # NoProcess /\ sys.is_powered_on

InitSys ==
    \E seed \in Seeds :
        LET k == NoProcessState(seed) IN
        /\ status = k.status
        /\ is_signaled = k.is_signaled
        /\ waiting_threads = k.waiting
        /\ threads = k.threads
        /\ main_thread_stack_size = k.stack_size
        /\ vm_map = k.vm
        /\ fatal = k.fatal
        /\ status_log = k.log
        /\ last = NoCall
        /\ signal_pending = FALSE
        /\ hle_lock = 0
        /\ cores = <<>>
        /\ tls_slots = <<>>
        /\ tls_assigned = {}
        /\ tls_frees = 0
        /\ tls_last = NoTLSCall
        /\ program_id = k.program_id
        /\ ideal_core = k.ideal_core
        /\ is_64bit_process = k.is_64bit
        /\ address_space_type = k.address_space_type
        /\ handle_table = k.handles
        /\ handle_table_size = k.handle_table_size
        /\ code_memory_size = k.code_memory_size
        /\ heap_size = k.heap_size
        /\ process_id = k.process_id
        /\ random_entropy = k.random_entropy
        /\ kernel_core = k.kernel_core
        /\ rng_seed = k.rng_seed
        /\ sys = k.sys
        /\ broker = FreshBroker
        /\ broker_log = NoBrokerLog

\* the TLS pages of a process go with the process
TLSGone ==
    /\ tls_slots' = <<>>
    /\ tls_assigned' = {}
    /\ tls_frees' = 0
    /\ tls_last' = NoTLSCall

\* the frontend calls System::Load
LoadCall ==
    /\ Alive
    /\ \E loader_ok \in BOOLEAN : \E renderer_ok \in BOOLEAN : \E image \in Images :
          LET r == SystemLoad(Kernel, loader_ok, renderer_ok, image) IN
          /\ Commit(r.k)
          /\ last' = [NoCall EXCEPT !.op = "Load", !.result = r.result]
          /\ signal_pending' = IF loader_ok THEN r.k.is_signaled ELSE signal_pending
          /\ IF loader_ok THEN TLSGone ELSE UNCHANGED tls_vars
    /\ UNCHANGED wait_vars

\* the frontend calls System::Shutdown on the running session
ShutdownCall ==
    /\ Alive
    /\ sys.is_powered_on
    /\ Commit(Shutdown(Kernel))
    /\ last' = [NoCall EXCEPT !.op = "Shutdown"]
    /\ signal_pending' = FALSE
    /\ TLSGone
    /\ UNCHANGED wait_vars

\* Process::Create of a further process of the session
CreateCall ==
    /\ Alive
    /\ sys.is_powered_on
    /\ Len(kernel_core.process_list) < MaxProcesses
    /\ Commit([Kernel EXCEPT !.kernel_core = Create(Kernel).kernel_core])
    /\ last' = [NoCall EXCEPT !.op = "Create"]
    /\ UNCHANGED <<signal_pending, wait_vars, tls_vars>>

\* the frontend changes the configured seed
ConfigureSeed ==
    /\ Alive
    /\ \E seed \in Seeds \ {rng_seed} : Commit([Kernel EXCEPT !.rng_seed = seed])
    /\ last' = NoCall
    /\ UNCHANGED <<signal_pending, wait_vars, tls_vars>>

\* a further module is loaded into the main process
LoadModuleCall ==
    /\ Alive
    /\ ProcessLive
    /\ \E module_ \in CodeSets : \E base_addr \in ModuleBases :
          /\ Commit(LoadModule(Kernel, module_, base_addr))
          /\ RecordArgs("LoadModule", NoThread, RESULT_SUCCESS,
                        [NoArgs EXCEPT !.memory = module_.memory])
    /\ UNCHANGED <<wait_vars, tls_vars>>

\* the guest sizes the heap of the main process
SetHeapSizeCall ==
    /\ Alive
    /\ ProcessLive
    /\ \E size \in HeapSizes \ {heap_size} : Commit([Kernel EXCEPT !.heap_size = size])
    /\ last' = NoCall
    /\ UNCHANGED <<signal_pending, wait_vars, tls_vars>>

MainClearSignalState == ProcessLive /\ ClearSignalStateCall
MainPrepareForTermination == ProcessLive /\ PrepareForTerminationCall
MainSchedule == ProcessLive /\ Schedule
\* a thread of the main process takes its TLS slot, or gives it back
MainMark == ProcessLive /\ Cardinality(tls_assigned) < Len(threads) /\ MarkCall
MainFree == ProcessLive /\ FreeCall

NextSys ==
    \/ LoadCall
    \/ ShutdownCall
    \/ CreateCall
    \/ ConfigureSeed
    \/ LoadModuleCall
    \/ SetHeapSizeCall
    \/ MainClearSignalState
    \/ MainPrepareForTermination
    \/ MainSchedule
    \/ MainMark
    \/ MainFree

SpecSys == InitSys /\ [][NextSys]_vars

(***************************************************************************)
(* The session: claims.                                                    *)
(***************************************************************************)
\* the IDs of the processes of the session, in the order of their creation
ProcessIDs == [i \in 1..Len(kernel_core.process_list) |->
                  kernel_core.process_list[i].process_id]

\* the step is a call of Load that obtained a loader, or a Shutdown: the
\* session before it is gone
SessionEnds == last'.op = "Shutdown" \/ (last'.op = "Load" /\ sys'.trace # <<>>)

\* C22: the IDs of the processes of a session grow in the order of their
\* creation (so they differ), every registered process was left by Create in
\* status Created with program ID 0, the main process is registered once under
\* its ID, and within a session no step changes the process ID of the main
\* process or the IDs registered, a Create only adding one at the end.
C22_ProcessIDsUniqueAndFixed ==
    /\ [](/\ \A i, j \in 1..Len(ProcessIDs) : i < j => ProcessIDs[i] < ProcessIDs[j]
          /\ \A i \in 1..Len(ProcessIDs) :
                /\ ProcessIDs[i] >= ProcessIDMin
                /\ ProcessIDs[i] < kernel_core.next_process_id
                /\ kernel_core.process_list[i].status = "Created"
                /\ kernel_core.process_list[i].program_id = 0
          /\ process_id # NoProcess =>
                Cardinality({i \in 1..Len(ProcessIDs) : ProcessIDs[i] = process_id}) = 1)
    /\ [][~SessionEnds =>
             /\ process_id' = process_id
             /\ \/ ProcessIDs' = ProcessIDs
                \/ /\ last'.op = "Create"
                   /\ Len(ProcessIDs') = Len(ProcessIDs) + 1
                   /\ SubSeq(ProcessIDs', 1, Len(ProcessIDs)) = ProcessIDs]_vars

\* a second process was created after the main process, which has terminated
C22_Witness ==
    /\ Len(ProcessIDs) = 2
    /\ process_id = ProcessIDs[1]
    /\ ProcessIDs[2] = process_id + 1
    /\ status = "Exited"
    /\ code_memory_size = 0
    /\ tls_frees > 0

\* the seed values a configuration can name, as far as they are looked at
SeedValues == 0..5

\* C23: two processes created under the same configured seed have the same
\* entropy buffer, and the buffer of a process created with no seed
\* configured comes from a random source: it is not what the generator
\* produces for a fixed seed.
C23_EntropyFromSeedOrRandom ==
    \A i, j \in 1..Len(kernel_core.process_list) :
        LET p == kernel_core.process_list[i]
            q == kernel_core.process_list[j]
        IN  /\ (p.rng_seed.has_value /\ p.rng_seed = q.rng_seed) =>
                  p.random_entropy = q.random_entropy
            /\ ~p.rng_seed.has_value =>
                  \A v \in SeedValues : p.random_entropy # Generate(v, RANDOM_ENTROPY_SIZE)

\* the bytes of the regions in `regions`
RECURSIVE TotalSize(_)
TotalSize(regions) ==
    IF regions = {} THEN 0
    ELSE LET r == CHOOSE x \in regions : TRUE IN r.size + TotalSize(regions \ {r})

\* the sizes of the memory images of the modules loaded into the main
\* process, added up: each image is covered by its three mapped segments
LoadedImageSize == TotalSize({r \in vm_map : r.state \in {"Code", "CodeData"}})

\* C24: the code memory size of the process is the sum of the sizes of the
\* memory images of the modules loaded into it, and GetTotalPhysicalMemoryUsed
\* is the heap size plus the page-aligned main-thread stack size plus that sum.
C24_CodeMemoryAccumulates ==
    (ProcessLive /\ fatal = "none") =>
        /\ code_memory_size = LoadedImageSize
        /\ GetTotalPhysicalMemoryUsed(Kernel) =
              heap_size + main_thread_stack_size + LoadedImageSize

\* Load has returned a status other than Success
LoadFailed == last.op = "Load" /\ last.result # "Success"

\* C25 as claimed: whenever Load returns a status other than Success, the
\* session was torn down through Shutdown: the system is not powered on, no
\* process is current, the CPU threads are not started and Run was not called.
C25_FailedLoadShutsDown ==
    LoadFailed =>
        /\ "Shutdown" \in Range(sys.trace)
        /\ ~sys.is_powered_on
        /\ kernel_core.current_process = NoProcess
        /\ ~sys.cpu_threads_started
        /\ "Run" \notin Range(sys.trace)

\* C25 amended: when Load returns because Init or the loader failed, Shutdown
\* was its last step: the system is not powered on, no process exists or is
\* current, the CPU threads are not started, and no process was made current
\* or run.  When Load returns because no loader was obtained, nothing was
\* initialised and Shutdown was not called: but for the loader, which is
\* gone, the system, the kernel and the process are as they were before the
\* call, so a system that was not powered on is not powered on.
C25_FailedLoadTornDown ==
    [][(LoadCall /\ last'.result # "Success") =>
          IF last'.result = "ErrorGetLoader"
          THEN /\ sys' = [sys EXCEPT !.app_loader = FALSE, !.trace = <<>>]
               /\ kernel_core' = kernel_core
               /\ process_id' = process_id
               /\ status' = status
               /\ threads' = threads
               /\ vm_map' = vm_map
          ELSE /\ last'.result \in {"ErrorVideoCore", "ErrorLoader"}
               /\ sys'.trace[Len(sys'.trace)] = "Shutdown"
               /\ ~sys'.is_powered_on
               /\ sys'.components = {}
               /\ ~sys'.app_loader
               /\ kernel_core'.current_process = NoProcess
               /\ kernel_core'.process_list = <<>>
               /\ process_id' = NoProcess
               /\ ~sys'.cpu_threads_started
               /\ ~sys'.gpu_started
               /\ Range(sys'.trace) \cap {"MakeCurrentProcess", "StartThreads", "Run"} = {}
               /\ threads' = <<>>]_vars

\* the loader refused the image after the main process was created, and the
\* session is gone
C25_Witness ==
    /\ LoadFailed
    /\ last.result = "ErrorLoader"
    /\ sys.trace = <<"loader">> \o InitSteps \o <<"gpu_core", "Create", "Shutdown">>
    /\ ~sys.is_powered_on
    /\ process_id = NoProcess
    /\ kernel_core = FreshKernelCore

\* C28: a successful Load performs its steps in this order: loader, Init
\* (core timing, CPU core manager, kernel, services, renderer, GPU), Create,
\* image load, MakeCurrentProcess, GPU start, CPU threads start, and last Run;
\* in no session is Run recorded without a preceding successful image load.
C28_LoadOrder ==
    /\ (last.op = "Load" /\ last.result = "Success") =>
           sys.trace = <<"loader">> \o InitSteps \o
                       <<"gpu_core", "Create", "Load", "MakeCurrentProcess",
                         "gpu_start", "StartThreads", "Run">>
    /\ \A i \in 1..Len(sys.trace) :
           sys.trace[i] = "Run" =>
               /\ \E j \in 1..(i - 1) : sys.trace[j] = "Load"
               /\ \A j \in 1..(i - 1) : sys.trace[j] # "Shutdown"

\* a Load that succeeded: the main process is current and running
C28_Witness ==
    /\ last.op = "Load"
    /\ last.result = "Success"
    /\ "Run" \in Range(sys.trace)
    /\ status = "Running"
    /\ kernel_core.current_process = process_id
    /\ sys.cpu_threads_started

(***************************************************************************)
(* ChangeStatus to the current status: claims.                             *)
(***************************************************************************)
\* core c is in ChangeStatus with the status the process already has
SameStatusRequest(c) == At(c, "change_check") /\ cores[c].new_status = status

\* C29: ChangeStatus(s) on a process whose status is s returns at once: the
\* status, the signal, the waiting list, every thread and the status history
\* are as before, and the handler goes straight to its exit; a process whose
\* signal was cleared stays unsignaled when Running is requested again.
C29_SameStatusIsNoOp ==
    /\ [](ChangeStatus(Kernel, status) = Kernel)
    /\ [][\A c \in Cores :
             (SameStatusRequest(c) /\ ChangeCheck(c)) =>
                 /\ UNCHANGED <<status, is_signaled, waiting_threads, threads,
                                status_log, vm_map, signal_pending>>
                 /\ cores'[c].pc = "leave"]_vars

\* Running was requested of a Running process whose signal had been cleared:
\* the handler is at its exit, the signal is still clear and a waiter still
\* waits
C29_Witness ==
    \E c \in Cores :
        /\ At(c, "leave")
        /\ cores[c].new_status = "Running"
        /\ status = "Running"
        /\ status_log = <<"Created", "Running">>
        /\ ~is_signaled
        /\ waiting_threads # {}

(***************************************************************************)
(* The main-thread stack: claims.                                          *)
(***************************************************************************)
StackRegions == {r \in vm_map : r.state = "Stack"}

\* the end of a mapped region, in unsigned arithmetic
RegionEnd(r) == (r.base + r.size) % WordModulus

\* C27: when Run has returned, the address space holds one Stack region, of
\* the aligned stack size, whose end is the end address of the TLS/IO region;
\* the main thread has the code-region base as its entry point and that same
\* end address as its stack top.  While Run is between the mapping and the
\* thread's creation the region is already there.
C27_StackEndsAtRegionEnd ==
    /\ (last.op = "Run" /\ fatal = "none" /\ ~At(LoaderThread, "run_map")) =>
          /\ Cardinality(StackRegions) = 1
          /\ \A r \in StackRegions :
                /\ r.size = main_thread_stack_size
                /\ r.base = (TLSIORegionEndAddress - main_thread_stack_size) % WordModulus
                /\ RegionEnd(r) = TLSIORegionEndAddress
    /\ (last.op = "Run" /\ fatal = "none" /\ At(LoaderThread, "guest")) =>
          /\ Len(threads) = 1
          /\ threads[1].entry_point = CodeRegionBaseAddress
          /\ threads[1].stack_top = TLSIORegionEndAddress
          /\ \A r \in StackRegions : threads[1].stack_top = RegionEnd(r)

\* Run has returned for a stack request that is not a multiple of the page
\* size: two pages are mapped below the region end and the main thread exists
C27_Witness ==
    /\ last.op = "Run"
    /\ At(LoaderThread, "guest")
    /\ last.args.stack_size = PAGE_SIZE + 1
    /\ [base |-> TLSIORegionEndAddress - 2 * PAGE_SIZE, size |-> 2 * PAGE_SIZE,
        state |-> "Stack"] \in vm_map
    /\ Len(threads) = 1
    /\ threads[1].stack_top = TLSIORegionEndAddress
    /\ threads[1].entry_point = CodeRegionBaseAddress

(***************************************************************************)
(* TLS addresses: claims.                                                  *)
(***************************************************************************)
\* offsets of addresses inside one slot: its first, second and last byte
SlotOffsets == {0, 1, TLS_ENTRY_SIZE - 1}

\* the bitsets `after` are the bitsets `before` with exactly the bit of
\* (page, slot) cleared
OnlyBitCleared(before, after, page, slot) ==
    /\ Len(after) = Len(before)
    /\ \A p \in 0..(Len(before) - 1) : \A sl \in Slots :
          sl \in after[p + 1] <=> (sl \in before[p + 1] /\ <<p, sl>> # <<page, slot>>)

\* the slot (p, s) an allocation has just handed out: its address is
\* base + p * page size + s * slot width, and FreeTLSSlot on any address
\* inside that slot computes (p, s) and clears that bit and no other
TLSRoundTrip ==
    tls_last.op = "Mark" =>
        /\ tls_last.addr = TLSAddress(tls_last.page, tls_last.slot)
        /\ tls_last.slot \in tls_slots[tls_last.page + 1]
        /\ \A off \in SlotOffsets :
              LET tls_address == tls_last.addr + off IN
              /\ TLSPageOf(tls_address) = tls_last.page
              /\ TLSSlotOf(tls_address) = tls_last.slot
              /\ OnlyBitCleared(tls_slots, FreeTLSSlot(tls_slots, tls_address),
                                tls_last.page, tls_last.slot)

\* C26: every allocated TLS page p is mapped at TLS region base + p * page
\* size, the address returned for page p and slot s is base + p * page size
\* + s * slot width, and FreeTLSSlot on that address, or on any address
\* inside that slot, decodes to (p, s) and clears only that bit.
C26_TLSAddressRoundTrip ==
    /\ \A p \in 0..(Len(tls_slots) - 1) : TLSPageRegion(p) \in vm_map
    /\ TLSRoundTrip

(***************************************************************************)
(* SpecBroker: the game and an applet push storages into the channels of   *)
(* one broker and pop them, in any interleaving.                           *)
(***************************************************************************)
\* the storages the two sides push
Storages == {1, 2}

\* the number of storages pushed so far
RECURSIVE TotalLen(_, _)
TotalLen(f, chs) ==
    IF chs = {} THEN 0
    ELSE LET ch == CHOOSE c \in chs : TRUE IN Len(f[ch]) + TotalLen(f, chs \ {ch})

MayPush == TotalLen(broker_log.pushed, Channels) < MaxStorages

\* the log after a push of storage into channel ch by the call op
LogPush(op, ch, storage) ==
    [broker_log EXCEPT !.op = op, !.out = NoStorage,
                       !.pushed[ch] = Append(@, storage)]

\* the log after the call op popped channel ch and returned out
LogPop(op, ch, out) ==
    [broker_log EXCEPT !.op = op, !.out = out,
                       !.popped[ch] = IF out = NoStorage THEN @ ELSE Append(@, out)]

\* a broker call leaves the process and the system alone
BrokerFrame ==
    UNCHANGED <<status, is_signaled, waiting_threads, threads,
                main_thread_stack_size, vm_map, fatal, status_log, last,
                signal_pending, wait_vars, tls_vars, program_id, ideal_core,
                is_64bit_process, address_space_type, handle_table,
                handle_table_size, code_memory_size, heap_size, process_id,
                random_entropy, kernel_core, rng_seed, sys>>

PopNormalDataToGameCall ==
    /\ LET r == PopNormalDataToGame(broker) IN
          /\ broker' = r.b
          /\ broker_log' = LogPop("PopNormalDataToGame", "out_channel", r.out)
    /\ BrokerFrame

PopNormalDataToAppletCall ==
    /\ LET r == PopNormalDataToApplet(broker) IN
          /\ broker' = r.b
          /\ broker_log' = LogPop("PopNormalDataToApplet", "in_channel", r.out)
    /\ BrokerFrame

PopInteractiveDataToGameCall ==
    /\ LET r == PopInteractiveDataToGame(broker) IN
          /\ broker' = r.b
          /\ broker_log' = LogPop("PopInteractiveDataToGame",
                                  "out_interactive_channel", r.out)
    /\ BrokerFrame

PopInteractiveDataToAppletCall ==
    /\ LET r == PopInteractiveDataToApplet(broker) IN
          /\ broker' = r.b
          /\ broker_log' = LogPop("PopInteractiveDataToApplet",
                                  "in_interactive_channel", r.out)
    /\ BrokerFrame

PushNormalDataFromGameCall ==
    /\ MayPush
    /\ \E storage \in Storages :
          /\ broker' = PushNormalDataFromGame(broker, storage)
          /\ broker_log' = LogPush("PushNormalDataFromGame", "in_channel", storage)
    /\ BrokerFrame

PushNormalDataFromAppletCall ==
    /\ MayPush
    /\ \E storage \in Storages :
          /\ broker' = PushNormalDataFromApplet(broker, storage)
          /\ broker_log' = LogPush("PushNormalDataFromApplet", "out_channel", storage)
    /\ BrokerFrame

PushInteractiveDataFromGameCall ==
    /\ MayPush
    /\ \E storage \in Storages :
          /\ broker' = PushInteractiveDataFromGame(broker, storage)
          /\ broker_log' = LogPush("PushInteractiveDataFromGame",
                                   "in_interactive_channel", storage)
    /\ BrokerFrame

PushInteractiveDataFromAppletCall ==
    /\ MayPush
    /\ \E storage \in Storages :
          /\ broker' = PushInteractiveDataFromApplet(broker, storage)
          /\ broker_log' = LogPush("PushInteractiveDataFromApplet",
                                   "out_interactive_channel", storage)
    /\ BrokerFrame

SignalStateChangedCall ==
    /\ broker' = SignalStateChanged(broker)
    /\ broker_log' = [broker_log EXCEPT !.op = "SignalStateChanged", !.out = NoStorage]
    /\ BrokerFrame

NextBroker ==
    \/ PopNormalDataToGameCall
    \/ PopNormalDataToAppletCall
    \/ PopInteractiveDataToGameCall
    \/ PopInteractiveDataToAppletCall
    \/ PushNormalDataFromGameCall
    \/ PushNormalDataFromAppletCall
    \/ PushInteractiveDataFromGameCall
    \/ PushInteractiveDataFromAppletCall
    \/ SignalStateChangedCall

SpecBroker == Init /\ [][NextBroker]_vars

(***************************************************************************)
(* AppletDataBroker: claims.                                               *)
(***************************************************************************)
\* the channel a broker call works on
ChannelOf(op) ==
    CASE op \in {"PushNormalDataFromGame", "PopNormalDataToApplet"} -> {"in_channel"}
      [] op \in {"PushNormalDataFromApplet", "PopNormalDataToGame"} -> {"out_channel"}
      [] op \in {"PushInteractiveDataFromGame", "PopInteractiveDataToApplet"} ->
            {"in_interactive_channel"}
      [] op \in {"PushInteractiveDataFromApplet", "PopInteractiveDataToGame"} ->
            {"out_interactive_channel"}
      [] OTHER -> {}

PopOps == {"PopNormalDataToGame", "PopNormalDataToApplet",
           "PopInteractiveDataToGame", "PopInteractiveDataToApplet"}

\* C31: each channel is a FIFO of its own: the storages popped from a channel
\* followed by those still in it are the storages pushed into it, in the
\* order of the pushes; a pop of an empty channel returns null and leaves the
\* broker as it is; a call changes no channel but its own; the normal-data-out
\* event is signaled by PushNormalDataFromApplet and by nothing else, the
\* interactive-data-out event by PushInteractiveDataFromApplet and by nothing
\* else, and the pushes from the game signal no event.
C31_ChannelsAreFIFO ==
    /\ [](\A ch \in Channels :
             broker_log.pushed[ch] = broker_log.popped[ch] \o broker[ch])
    /\ [][NextBroker =>
             LET op == broker_log'.op IN
             /\ \A ch \in Channels \ ChannelOf(op) : broker'[ch] = broker[ch]
             /\ \A ch \in ChannelOf(op) :
                   (op \in PopOps /\ broker[ch] = <<>>) =>
                       broker' = broker /\ broker_log'.out = NoStorage
             /\ \A ch \in ChannelOf(op) :
                   (op \in PopOps /\ broker[ch] # <<>>) =>
                       /\ broker_log'.out = Head(broker[ch])
                       /\ broker'[ch] = Tail(broker[ch])
             /\ broker'.pop_out_data_event =
                   (broker.pop_out_data_event \/ op = "PushNormalDataFromApplet")
             /\ broker'.pop_interactive_out_data_event =
                   (broker.pop_interactive_out_data_event
                    \/ op = "PushInteractiveDataFromApplet")
             /\ broker'.state_changed_event =
                   (broker.state_changed_event \/ op = "SignalStateChanged")]_vars

\* the game pushed storage 2 and then storage 1 for the applet, the applet
\* pushed a storage of its own in between and popped storage 2: storage 1 is
\* still queued, and only the normal-data-out event is signaled
C31_Witness ==
    /\ broker_log.op = "PopNormalDataToApplet"
    /\ broker_log.out = 2
    /\ broker_log.pushed["in_channel"] = <<2, 1>>
    /\ broker.in_channel = <<1>>
    /\ broker.out_channel = <<1>>
    /\ broker.pop_out_data_event
    /\ ~broker.pop_interactive_out_data_event

(***************************************************************************)
(* SpecApplets: the frontend installs applet frontends and starts and ends *)
(* sessions.                                                               *)
(***************************************************************************)
\* the sets the frontend passes to SetAppletFrontendSet: some of the five
\* frontends, all of them, none of them
FrontendSets ==
    {[EmptyFrontendSet EXCEPT !.error = "A", !.software_keyboard = "A"],
     [EmptyFrontendSet EXCEPT !.web_browser = "A", !.error = "B"],
     [error |-> "B", photo_viewer |-> "B", profile_select |-> "B",
      software_keyboard |-> "B", web_browser |-> "B"],
     EmptyFrontendSet}

\* System::SetAppletFrontendSet(set)
SetAppletFrontendSetCall(set) ==
    /\ Alive
    /\ Commit([Kernel EXCEPT !.sys.frontend = SetAppletFrontendSet(@, set)])
    /\ last' = [NoCall EXCEPT !.op = "SetAppletFrontendSet"]
    /\ UNCHANGED <<signal_pending, wait_vars, tls_vars>>

\* System::SetDefaultAppletFrontendSet
SetDefaultAppletFrontendSetCall ==
    /\ Alive
    /\ Commit([Kernel EXCEPT !.sys.frontend = SetDefaultAppletFrontendSet(@)])
    /\ last' = [NoCall EXCEPT !.op = "SetDefaultAppletFrontendSet"]
    /\ UNCHANGED <<signal_pending, wait_vars, tls_vars>>

NextApplets ==
    \/ \E set \in FrontendSets : SetAppletFrontendSetCall(set)
    \/ SetDefaultAppletFrontendSetCall
    \/ LoadCall
    \/ ShutdownCall

SpecApplets == InitSys /\ [][NextApplets]_vars

(***************************************************************************)
(* The applet frontends: claims.                                           *)
(***************************************************************************)
AllSet(frontend) == \A a \in AppletKinds : frontend[a] # NoFrontend

\* every frontend that is set in `before` is the same in `after`
KeepsSet(before, after) ==
    \A a \in AppletKinds : before[a] # NoFrontend => after[a] = before[a]

\* C32: Init leaves all five frontends non-null and every frontend that was
\* set as it was, and SetDefaultAppletsIfMissing applied twice gives what it
\* gives applied once; SetAppletFrontendSet replaces the frontends that are
\* non-null in its argument and keeps the others; Shutdown, called by the
\* frontend or by a Load that fails after Init, leaves all five null, whatever
\* was installed before.
C32_FrontendsDefaultedAndCleared ==
    /\ [](LET once == SetDefaultAppletsIfMissing(sys.frontend) IN
          /\ AllSet(once)
          /\ KeepsSet(sys.frontend, once)
          /\ SetDefaultAppletsIfMissing(once) = once)
    /\ [](sys.is_powered_on => AllSet(sys.frontend))
    /\ [][(LoadCall /\ last'.result = "Success") =>
             /\ AllSet(sys'.frontend)
             /\ KeepsSet(sys.frontend, sys'.frontend)
             /\ \A a \in AppletKinds :
                   sys.frontend[a] = NoFrontend => sys'.frontend[a] = DefaultFrontend]_vars
    /\ [][\A set \in FrontendSets :
             SetAppletFrontendSetCall(set) =>
                 \A a \in AppletKinds :
                     sys'.frontend[a] = IF set[a] # NoFrontend THEN set[a]
                                        ELSE sys.frontend[a]]_vars
    /\ [][(ShutdownCall \/ (LoadCall /\ last'.result \in {"ErrorVideoCore", "ErrorLoader"}))
             => sys'.frontend = EmptyFrontendSet]_vars

\* the frontend installed two frontends and Load started a session: the two
\* are in place and the three missing ones are the default ones
C32_Witness ==
    /\ last.op = "Load"
    /\ last.result = "Success"
    /\ sys.is_powered_on
    /\ sys.frontend = [error |-> "A", photo_viewer |-> DefaultFrontend,
                       profile_select |-> DefaultFrontend,
                       software_keyboard |-> "A", web_browser |-> DefaultFrontend]
====
